---- MODULE Spec2Model ----
(***************************************************************************)
(* Orchestration core of src/src/multi_agent_system.py: the GraphState     *)
(* record, the inter-agent message log, the orchestrator (determine next   *)
(* step, retry check, execute transition), the agent nodes, the router and *)
(* the compiled graph that drives them.                                    *)
(*                                                                         *)
(* Python values are represented as follows:                               *)
(*   - an Optional[int] or Optional[list] is <<>> for None, <<v>> for v;   *)
(*   - an Optional[str] is the string "None" for None;                     *)
(*   - a list is a sequence; Python's 0-based index i is position i + 1;   *)
(*   - a dict keyed by int is a function on a finite set of integers;      *)
(*   - a raised exception is the exception's message, "None" = no raise;   *)
(*   - text produced by an external collaborator (LLM) is an opaque token. *)
(***************************************************************************)
EXTENDS Integers, Sequences, FiniteSets, TLC

VARIABLES
    state,      \* the GraphState threaded through the graph
    pc,         \* the node the compiled graph runs next
    faults,     \* number of state-growing abnormal collaborator outcomes so far
    hist,       \* history: how many approve / reject verdicts the critic returned
    query,      \* arguments of the last get_agent_conversation call
    inbox       \* result of the last get_agent_conversation call

vars == <<state, pc, faults, hist, query, inbox>>

(***************************************************************************)
(* Bounds of the model                                                     *)
(***************************************************************************)
MaxSteps == 2          \* longest research plan the planner returns
MaxRetryLimit == 2     \* largest configured retry_limit below the default
MaxFaults == 1         \* abnormal outcomes explored per run
MaxLogLen == 2         \* longest log given to get_agent_conversation
MaxUnitCalls == 2      \* successive direct orchestrator calls on one state
MaxVisits == 3         \* researcher visits followed in the research phase
MaxUndecided == 2      \* undecided critic verdicts followed per run

(***************************************************************************)
(* Program constants                                                       *)
(***************************************************************************)
DefaultRetryLimit == 5
InitialResearchIndex == -1

None == <<>>
Some(i) == <<i>>
NoneStr == "None"

FAILURE_ANSWER == "The question could not be answered."

\* Python truthiness of an Optional[str]
Truthy(x) == x # NoneStr /\ x # ""

(***************************************************************************)
(* Inter-agent communication                                               *)
(***************************************************************************)
AgentMessage(sender, receiver, type, content, step_id) ==
    [sender |-> sender, receiver |-> receiver, type |-> type,
     content |-> content, step_id |-> step_id]

\* send_message that puts the new message in front of the log.
send_message_in_front(s, message) ==
    [s EXCEPT !.agent_messages = <<message>> \o @]

send_message(s, message) ==
    [s EXCEPT !.agent_messages = Append(@, message)]

\* The first list comprehension of get_agent_conversation.
BetweenOrchestratorAnd(m, agent_name) ==
    \/ (m.sender = agent_name /\ m.receiver = "orchestrator")
    \/ (m.sender = "orchestrator" /\ m.receiver = agent_name)

\* `if step_id is not None`
StepFilterApplies(step_id) == step_id # None

\* `if types`: None and the empty list are both falsy.
TypesFilterApplies(types) == types # None /\ types[1] # <<>>

InList(x, lst) == \E i \in 1..Len(lst) : lst[i] = x

\* The comprehension with `or` in place of each `and`.
get_agent_conversation_any_party(messages, agent_name, types, step_id) ==
    SelectSeq(messages, LAMBDA m : m.sender = agent_name \/ m.receiver = agent_name)

get_agent_conversation(messages, agent_name, types, step_id) ==
    LET inbox0 == SelectSeq(messages, LAMBDA m : BetweenOrchestratorAnd(m, agent_name))
        inbox1 == IF StepFilterApplies(step_id)
                  THEN SelectSeq(inbox0, LAMBDA m : m.step_id = step_id)
                  ELSE inbox0
    IN  IF TypesFilterApplies(types)
        THEN SelectSeq(inbox1, LAMBDA m : InList(m.type, types[1]))
        ELSE inbox1

(***************************************************************************)
(* Error handling utilities                                                *)
(***************************************************************************)
\* Exception messages. The first two are raised by the program itself, the
\* others stand for what an external collaborator call can raise.
InvalidStepMessage == "Invalid current step"
IndexErrorMessage == "list index out of range"
InvalidCriticStepMessage == "Invalid critic step"
InvalidResponseMessage == "Invalid LLM response structure"
NetworkMessage == "Network is unreachable"
TimeoutMessage == "Request Timeout"

\* The characters of the exception messages that occur.
Spell(msg) ==
    CASE msg = "Invalid current step" ->
            <<"I", "n", "v", "a", "l", "i", "d", " ", "c", "u", "r", "r", "e",
            "n", "t", " ", "s", "t", "e", "p">>
      [] msg = "list index out of range" ->
            <<"l", "i", "s", "t", " ", "i", "n", "d", "e", "x", " ", "o", "u",
            "t", " ", "o", "f", " ", "r", "a", "n", "g", "e">>
      [] msg = "Invalid critic step" ->
            <<"I", "n", "v", "a", "l", "i", "d", " ", "c", "r", "i", "t", "i",
            "c", " ", "s", "t", "e", "p">>
      [] msg = "Invalid LLM response structure" ->
            <<"I", "n", "v", "a", "l", "i", "d", " ", "L", "L", "M", " ", "r",
            "e", "s", "p", "o", "n", "s", "e", " ", "s", "t", "r",
            "u", "c", "t", "u", "r", "e">>
      [] msg = "Network is unreachable" ->
            <<"N", "e", "t", "w", "o", "r", "k", " ", "i", "s", " ", "u", "n",
            "r", "e", "a", "c", "h", "a", "b", "l", "e">>
      [] msg = "Request Timeout" ->
            <<"R", "e", "q", "u", "e", "s", "t", " ", "T", "i", "m", "e", "o",
            "u", "t">>
      [] msg = "Collaborator call failed" ->
            <<"C", "o", "l", "l", "a", "b", "o", "r", "a", "t", "o", "r", " ",
            "c", "a", "l", "l", " ", "f", "a", "i", "l", "e",
            "d">>
      [] msg = "boom" ->
            <<"b", "o", "o", "m">>
      [] msg = "Test error" ->
            <<"T", "e", "s", "t", " ", "e", "r", "r", "o", "r">>
      [] msg = "Network timeout" ->
            <<"N", "e", "t", "w", "o", "r", "k", " ", "t", "i", "m", "e", "o",
            "u", "t">>
      [] msg = "NETWORK DOWN" ->
            <<"N", "E", "T", "W", "O", "R", "K", " ", "D", "O", "W", "N">>
      [] msg = "Connection TimeOut" ->
            <<"C", "o", "n", "n", "e", "c", "t", "i", "o", "n", " ", "T", "i",
            "m", "e", "O", "u", "t">>
      [] msg = "Invalid response structure" ->
            <<"I", "n", "v", "a", "l", "i", "d", " ", "r", "e", "s", "p", "o",
            "n", "s", "e", " ", "s", "t", "r", "u", "c", "t", "u",
            "r", "e">>
      [] msg = "net work time out" ->
            <<"n", "e", "t", " ", "w", "o", "r", "k", " ", "t", "i", "m", "e",
            " ", "o", "u", "t">>
      [] OTHER -> <<>>

UpperCase == <<"A", "B", "C", "D", "E", "F", "G", "H", "I", "J", "K", "L", "M",
               "N", "O", "P", "Q", "R", "S", "T", "U", "V", "W", "X", "Y", "Z">>
LowerCase == <<"a", "b", "c", "d", "e", "f", "g", "h", "i", "j", "k", "l", "m",
               "n", "o", "p", "q", "r", "s", "t", "u", "v", "w", "x", "y", "z">>

\* str.lower()
Lower(chars) ==
    [k \in 1..Len(chars) |->
        IF \E u \in 1..26 : UpperCase[u] = chars[k]
        THEN LowerCase[CHOOSE u \in 1..26 : UpperCase[u] = chars[k]]
        ELSE chars[k]]

\* `needle in chars`
Contains(chars, needle) ==
    \E k \in 1..(Len(chars) - Len(needle) + 1) :
        SubSeq(chars, k, k + Len(needle) - 1) = needle

\* The test without lower(): upper-case messages are not recognised.
MentionsNetworkOrTimeout_case_sensitive(msg) ==
    \/ Contains(Spell(msg), <<"n", "e", "t", "w", "o", "r", "k">>)
    \/ Contains(Spell(msg), <<"t", "i", "m", "e", "o", "u", "t">>)

\* `"network" in str(error).lower() or "timeout" in str(error).lower()`
MentionsNetworkOrTimeout(msg) ==
    \/ Contains(Lower(Spell(msg)), <<"n", "e", "t", "w", "o", "r", "k">>)
    \/ Contains(Lower(Spell(msg)), <<"t", "i", "m", "e", "o", "u", "t">>)

\* set_error_state that records the message without the component.
set_error_state_without_component(s, component, msg) ==
    [s EXCEPT !.error = component \o " failed: " \o msg]

set_error_state(s, component, msg) ==
    [s EXCEPT !.error = component \o " failed: " \o msg,
              !.error_component = component]

handle_agent_error(s, component, msg) ==
    LET s1 == set_error_state(s, component, msg)
        s2 == IF ~MentionsNetworkOrTimeout(msg)
              THEN [s1 EXCEPT !.retry_count = @ + 1]
              ELSE s1
    IN  IF s2.retry_count >= s2.retry_limit
        THEN [s2 EXCEPT
                !.next_step = "finalizer",
                !.final_answer =
                    "The question could not be answered due to an error in "
                        \o component \o ".",
                !.final_reasoning_trace = "System encountered an error: " \o msg]
        ELSE s2

\* Outcome of a block of code that may raise: the state as the block left it,
\* and the message of the exception it raised (NoneStr when it returned).
Returned(s) == [raised |-> NoneStr, state |-> s]
Raised(s, msg) == [raised |-> msg, state |-> s]

\* lst[i] with Python's index rules (negative indices count from the end).
PyIndexOk(lst, i) == -Len(lst) <= i /\ i < Len(lst)
PyGet(lst, i) == IF i >= 0 THEN lst[i + 1] ELSE lst[Len(lst) + i + 1]

(***************************************************************************)
(* Orchestrator helper functions                                           *)
(***************************************************************************)
\* determine_next_step that does not count a reject of the expert.
determine_next_step_expert_reject_free(s) ==
    CASE s.current_step = "critic_planner" ->
            IF s.critic_planner_decision = "approve"
            THEN IF Len(s.research_steps) > 0
                 THEN [s EXCEPT !.next_step = "researcher",
                                !.current_research_index = -1,
                                !.research_results = <<>>,
                                !.researcher_states = <<>>]
                 ELSE [s EXCEPT !.next_step = "expert"]
            ELSE IF s.critic_planner_decision = "reject"
            THEN [s EXCEPT !.next_step = "planner", !.retry_count = @ + 1]
            ELSE s
      [] s.current_step = "critic_researcher" ->
            IF s.critic_researcher_decision = "approve"
            THEN IF s.current_research_index >= Len(s.research_steps) - 1
                 THEN [s EXCEPT !.next_step = "expert"]
                 ELSE [s EXCEPT !.next_step = "researcher"]
            ELSE IF s.critic_researcher_decision = "reject"
            THEN [s EXCEPT !.next_step = "researcher", !.retry_count = @ + 1]
            ELSE s
      [] s.current_step = "critic_expert" ->
            IF s.critic_expert_decision = "approve"
            THEN [s EXCEPT !.next_step = "finalizer"]
            ELSE IF s.critic_expert_decision = "reject"
            THEN [s EXCEPT !.next_step = "expert"]
            ELSE s
      [] s.current_step \in {"", "input"} -> [s EXCEPT !.next_step = "planner"]
      [] s.current_step = "planner" -> [s EXCEPT !.next_step = "critic_planner"]
      [] s.current_step = "researcher" -> [s EXCEPT !.next_step = "critic_researcher"]
      [] s.current_step = "expert" -> [s EXCEPT !.next_step = "critic_expert"]
      [] OTHER -> s

\* determine_next_step that goes back to the planner once the expert is approved.
determine_next_step_replan_after_expert(s) ==
    CASE s.current_step = "critic_planner" ->
            IF s.critic_planner_decision = "approve"
            THEN IF Len(s.research_steps) > 0
                 THEN [s EXCEPT !.next_step = "researcher",
                                !.current_research_index = -1,
                                !.research_results = <<>>,
                                !.researcher_states = <<>>]
                 ELSE [s EXCEPT !.next_step = "expert"]
            ELSE IF s.critic_planner_decision = "reject"
            THEN [s EXCEPT !.next_step = "planner", !.retry_count = @ + 1]
            ELSE s
      [] s.current_step = "critic_researcher" ->
            IF s.critic_researcher_decision = "approve"
            THEN IF s.current_research_index >= Len(s.research_steps) - 1
                 THEN [s EXCEPT !.next_step = "expert"]
                 ELSE [s EXCEPT !.next_step = "researcher"]
            ELSE IF s.critic_researcher_decision = "reject"
            THEN [s EXCEPT !.next_step = "researcher", !.retry_count = @ + 1]
            ELSE s
      [] s.current_step = "critic_expert" ->
            IF s.critic_expert_decision = "approve"
            THEN [s EXCEPT !.next_step = "planner"]
            ELSE IF s.critic_expert_decision = "reject"
            THEN [s EXCEPT !.next_step = "expert", !.retry_count = @ + 1]
            ELSE s
      [] s.current_step \in {"", "input"} -> [s EXCEPT !.next_step = "planner"]
      [] s.current_step = "planner" -> [s EXCEPT !.next_step = "critic_planner"]
      [] s.current_step = "researcher" -> [s EXCEPT !.next_step = "critic_researcher"]
      [] s.current_step = "expert" -> [s EXCEPT !.next_step = "critic_expert"]
      [] OTHER -> s

\* determine_next_step that keeps the research results and researcher
\* states of an earlier plan when a plan is approved.
determine_next_step_keeps_research(s) ==
    CASE s.current_step = "critic_planner" ->
            IF s.critic_planner_decision = "approve"
            THEN IF Len(s.research_steps) > 0
                 THEN [s EXCEPT !.next_step = "researcher",
                                !.current_research_index = -1]
                 ELSE [s EXCEPT !.next_step = "expert"]
            ELSE IF s.critic_planner_decision = "reject"
            THEN [s EXCEPT !.next_step = "planner", !.retry_count = @ + 1]
            ELSE s
      [] s.current_step = "critic_researcher" ->
            IF s.critic_researcher_decision = "approve"
            THEN IF s.current_research_index >= Len(s.research_steps) - 1
                 THEN [s EXCEPT !.next_step = "expert"]
                 ELSE [s EXCEPT !.next_step = "researcher"]
            ELSE IF s.critic_researcher_decision = "reject"
            THEN [s EXCEPT !.next_step = "researcher", !.retry_count = @ + 1]
            ELSE s
      [] s.current_step = "critic_expert" ->
            IF s.critic_expert_decision = "approve"
            THEN [s EXCEPT !.next_step = "finalizer"]
            ELSE IF s.critic_expert_decision = "reject"
            THEN [s EXCEPT !.next_step = "expert", !.retry_count = @ + 1]
            ELSE s
      [] s.current_step \in {"", "input"} -> [s EXCEPT !.next_step = "planner"]
      [] s.current_step = "planner" -> [s EXCEPT !.next_step = "critic_planner"]
      [] s.current_step = "researcher" -> [s EXCEPT !.next_step = "critic_researcher"]
      [] s.current_step = "expert" -> [s EXCEPT !.next_step = "critic_expert"]
      [] OTHER -> s

\* determine_next_step that asks for one research step more than the plan has.
determine_next_step_one_more_step(s) ==
    CASE s.current_step = "critic_planner" ->
            IF s.critic_planner_decision = "approve"
            THEN IF Len(s.research_steps) > 0
                 THEN [s EXCEPT !.next_step = "researcher",
                                !.current_research_index = -1,
                                !.research_results = <<>>,
                                !.researcher_states = <<>>]
                 ELSE [s EXCEPT !.next_step = "expert"]
            ELSE IF s.critic_planner_decision = "reject"
            THEN [s EXCEPT !.next_step = "planner", !.retry_count = @ + 1]
            ELSE s
      [] s.current_step = "critic_researcher" ->
            IF s.critic_researcher_decision = "approve"
            THEN IF s.current_research_index >= Len(s.research_steps)
                 THEN [s EXCEPT !.next_step = "expert"]
                 ELSE [s EXCEPT !.next_step = "researcher"]
            ELSE IF s.critic_researcher_decision = "reject"
            THEN [s EXCEPT !.next_step = "researcher", !.retry_count = @ + 1]
            ELSE s
      [] s.current_step = "critic_expert" ->
            IF s.critic_expert_decision = "approve"
            THEN [s EXCEPT !.next_step = "finalizer"]
            ELSE IF s.critic_expert_decision = "reject"
            THEN [s EXCEPT !.next_step = "expert", !.retry_count = @ + 1]
            ELSE s
      [] s.current_step \in {"", "input"} -> [s EXCEPT !.next_step = "planner"]
      [] s.current_step = "planner" -> [s EXCEPT !.next_step = "critic_planner"]
      [] s.current_step = "researcher" -> [s EXCEPT !.next_step = "critic_researcher"]
      [] s.current_step = "expert" -> [s EXCEPT !.next_step = "critic_expert"]
      [] OTHER -> s

\* determine_next_step that goes to the expert after the first approved
\* research step.
determine_next_step_skips_rest(s) ==
    CASE s.current_step = "critic_planner" ->
            IF s.critic_planner_decision = "approve"
            THEN IF Len(s.research_steps) > 0
                 THEN [s EXCEPT !.next_step = "researcher",
                                !.current_research_index = -1,
                                !.research_results = <<>>,
                                !.researcher_states = <<>>]
                 ELSE [s EXCEPT !.next_step = "expert"]
            ELSE IF s.critic_planner_decision = "reject"
            THEN [s EXCEPT !.next_step = "planner", !.retry_count = @ + 1]
            ELSE s
      [] s.current_step = "critic_researcher" ->
            IF s.critic_researcher_decision = "approve"
            THEN [s EXCEPT !.next_step = "expert"]
            ELSE IF s.critic_researcher_decision = "reject"
            THEN [s EXCEPT !.next_step = "researcher", !.retry_count = @ + 1]
            ELSE s
      [] s.current_step = "critic_expert" ->
            IF s.critic_expert_decision = "approve"
            THEN [s EXCEPT !.next_step = "finalizer"]
            ELSE IF s.critic_expert_decision = "reject"
            THEN [s EXCEPT !.next_step = "expert", !.retry_count = @ + 1]
            ELSE s
      [] s.current_step \in {"", "input"} -> [s EXCEPT !.next_step = "planner"]
      [] s.current_step = "planner" -> [s EXCEPT !.next_step = "critic_planner"]
      [] s.current_step = "researcher" -> [s EXCEPT !.next_step = "critic_researcher"]
      [] s.current_step = "expert" -> [s EXCEPT !.next_step = "critic_expert"]
      [] OTHER -> s

\* determine_next_step that enters research even for an empty plan.
determine_next_step_always_research(s) ==
    CASE s.current_step = "critic_planner" ->
            IF s.critic_planner_decision = "approve"
            THEN IF Len(s.research_steps) >= 0
                 THEN [s EXCEPT !.next_step = "researcher",
                                !.current_research_index = -1,
                                !.research_results = <<>>,
                                !.researcher_states = <<>>]
                 ELSE [s EXCEPT !.next_step = "expert"]
            ELSE IF s.critic_planner_decision = "reject"
            THEN [s EXCEPT !.next_step = "planner", !.retry_count = @ + 1]
            ELSE s
      [] s.current_step = "critic_researcher" ->
            IF s.critic_researcher_decision = "approve"
            THEN IF s.current_research_index >= Len(s.research_steps) - 1
                 THEN [s EXCEPT !.next_step = "expert"]
                 ELSE [s EXCEPT !.next_step = "researcher"]
            ELSE IF s.critic_researcher_decision = "reject"
            THEN [s EXCEPT !.next_step = "researcher", !.retry_count = @ + 1]
            ELSE s
      [] s.current_step = "critic_expert" ->
            IF s.critic_expert_decision = "approve"
            THEN [s EXCEPT !.next_step = "finalizer"]
            ELSE IF s.critic_expert_decision = "reject"
            THEN [s EXCEPT !.next_step = "expert", !.retry_count = @ + 1]
            ELSE s
      [] s.current_step \in {"", "input"} -> [s EXCEPT !.next_step = "planner"]
      [] s.current_step = "planner" -> [s EXCEPT !.next_step = "critic_planner"]
      [] s.current_step = "researcher" -> [s EXCEPT !.next_step = "critic_researcher"]
      [] s.current_step = "expert" -> [s EXCEPT !.next_step = "critic_expert"]
      [] OTHER -> s

\* Every verdict other than approve counted as a rejection.
determine_next_step_undecided_is_reject(s) ==
    CASE s.current_step = "critic_planner" ->
            IF s.critic_planner_decision = "approve"
            THEN IF Len(s.research_steps) > 0
                 THEN [s EXCEPT !.next_step = "researcher",
                                !.current_research_index = -1,
                                !.research_results = <<>>,
                                !.researcher_states = <<>>]
                 ELSE [s EXCEPT !.next_step = "expert"]
            ELSE IF s.critic_planner_decision # "approve"
            THEN [s EXCEPT !.next_step = "planner", !.retry_count = @ + 1]
            ELSE s
      [] s.current_step = "critic_researcher" ->
            IF s.critic_researcher_decision = "approve"
            THEN IF s.current_research_index >= Len(s.research_steps) - 1
                 THEN [s EXCEPT !.next_step = "expert"]
                 ELSE [s EXCEPT !.next_step = "researcher"]
            ELSE IF s.critic_researcher_decision # "approve"
            THEN [s EXCEPT !.next_step = "researcher", !.retry_count = @ + 1]
            ELSE s
      [] s.current_step = "critic_expert" ->
            IF s.critic_expert_decision = "approve"
            THEN [s EXCEPT !.next_step = "finalizer"]
            ELSE IF s.critic_expert_decision # "approve"
            THEN [s EXCEPT !.next_step = "expert", !.retry_count = @ + 1]
            ELSE s
      [] s.current_step \in {"", "input"} -> [s EXCEPT !.next_step = "planner"]
      [] s.current_step = "planner" -> [s EXCEPT !.next_step = "critic_planner"]
      [] s.current_step = "researcher" -> [s EXCEPT !.next_step = "critic_researcher"]
      [] s.current_step = "expert" -> [s EXCEPT !.next_step = "critic_expert"]
      [] OTHER -> s

determine_next_step(s) ==
    CASE s.current_step = "critic_planner" ->
            IF s.critic_planner_decision = "approve"
            THEN IF Len(s.research_steps) > 0
                 THEN [s EXCEPT !.next_step = "researcher",
                                !.current_research_index = -1,
                                !.research_results = <<>>,
                                !.researcher_states = <<>>]
                 ELSE [s EXCEPT !.next_step = "expert"]
            ELSE IF s.critic_planner_decision = "reject"
            THEN [s EXCEPT !.next_step = "planner", !.retry_count = @ + 1]
            ELSE s
      [] s.current_step = "critic_researcher" ->
            IF s.critic_researcher_decision = "approve"
            THEN IF s.current_research_index >= Len(s.research_steps) - 1
                 THEN [s EXCEPT !.next_step = "expert"]
                 ELSE [s EXCEPT !.next_step = "researcher"]
            ELSE IF s.critic_researcher_decision = "reject"
            THEN [s EXCEPT !.next_step = "researcher", !.retry_count = @ + 1]
            ELSE s
      [] s.current_step = "critic_expert" ->
            IF s.critic_expert_decision = "approve"
            THEN [s EXCEPT !.next_step = "finalizer"]
            ELSE IF s.critic_expert_decision = "reject"
            THEN [s EXCEPT !.next_step = "expert", !.retry_count = @ + 1]
            ELSE s
      [] s.current_step \in {"", "input"} -> [s EXCEPT !.next_step = "planner"]
      [] s.current_step = "planner" -> [s EXCEPT !.next_step = "critic_planner"]
      [] s.current_step = "researcher" -> [s EXCEPT !.next_step = "critic_researcher"]
      [] s.current_step = "expert" -> [s EXCEPT !.next_step = "critic_expert"]
      [] OTHER -> s

\* The limit applied one retry late.
check_retry_limit_one_late(s) ==
    IF s.retry_count >= s.retry_limit + 1
    THEN [s EXCEPT !.next_step = "finalizer",
                   !.final_answer = FAILURE_ANSWER,
                   !.final_reasoning_trace = FAILURE_ANSWER]
    ELSE s

\* The limit applied one retry early.
check_retry_limit_one_early(s) ==
    IF s.retry_count + 1 >= s.retry_limit
    THEN [s EXCEPT !.next_step = "finalizer",
                   !.final_answer = FAILURE_ANSWER,
                   !.final_reasoning_trace = FAILURE_ANSWER]
    ELSE s

\* check_retry_limit without the limit test: the run is never cut short.
check_retry_limit_never(s) == s

\* The limit compared with `>` in place of `>=`.
check_retry_limit_strict(s) ==
    IF s.retry_count > s.retry_limit
    THEN [s EXCEPT !.next_step = "finalizer",
                   !.final_answer = FAILURE_ANSWER,
                   !.final_reasoning_trace = FAILURE_ANSWER]
    ELSE s

\* The limit check that leaves final_reasoning_trace alone.
check_retry_limit_answer_only(s) ==
    IF s.retry_count >= s.retry_limit
    THEN [s EXCEPT !.next_step = "finalizer",
                   !.final_answer = FAILURE_ANSWER]
    ELSE s

check_retry_limit(s) ==
    IF s.retry_count >= s.retry_limit
    THEN [s EXCEPT !.next_step = "finalizer",
                   !.final_answer = FAILURE_ANSWER,
                   !.final_reasoning_trace = FAILURE_ANSWER]
    ELSE s

\* An instruction that drops its step_id.
Instruction_without_step_id(receiver, content, step_id) ==
    AgentMessage("orchestrator", receiver, "instruction", content, None)

Instruction(receiver, content, step_id) ==
    AgentMessage("orchestrator", receiver, "instruction", content, step_id)

\* sep.join(strings)
RECURSIVE Join(_, _)
Join(strings, sep) ==
    IF strings = <<>> THEN ""
    ELSE IF Len(strings) = 1 THEN strings[1]
    ELSE strings[1] \o sep \o Join(Tail(strings), sep)

\* The file reference without its file names.
FilesInfo_no_names(files) ==
    IF files = None \/ files[1] = <<>>
    THEN ""
    ELSE "\nInclude using following files in the research steps: "

\* files_info: empty when files is None or an empty list.
FilesInfo(files) ==
    IF files = None \/ files[1] = <<>>
    THEN ""
    ELSE "\nInclude using following files in the research steps: "
            \o Join(files[1], "\n")

PlanRequest(question, files) ==
    "Develop a logical plan to answer the following question: "
        \o question \o FilesInfo(files)
PlanReviewRequest == "Review the following plan"
ResearchRequest(step) == "Research the following topic or question: " \o step
ResearchDone == "All research steps completed."
ResearchReviewRequest(result) == "Review the following research results: " \o result
ExpertRequest(expert_steps) ==
    "Perform the following step(s) to answer the question: " \o Join(expert_steps, " ")
ExpertReviewRequest(answer) == "Review the following expert's answer: " \o answer
FinalizeRequest == "Generate the final answer and reasoning trace"

\* A researcher dispatch that never takes the retry branch.
RetriesResearch_never(s) == FALSE

\* `if state["critic_researcher_decision"] == "reject"` of the researcher branch
RetriesResearch(s) == s.critic_researcher_decision = "reject"

execute_next_step(s) ==
    LET s1 == [s EXCEPT !.current_step = s.next_step]
        idx == s1.current_research_index
    IN  CASE s1.current_step = "planner" ->
                Returned(send_message(s1,
                    IF s1.critic_planner_decision = "reject"
                    THEN Instruction("planner", s1.critic_planner_feedback, None)
                    ELSE Instruction("planner", PlanRequest(s1.question, s1.files), None)))
          [] s1.current_step = "critic_planner" ->
                Returned(send_message(s1,
                    Instruction("critic_planner", PlanReviewRequest, None)))
          [] s1.current_step = "researcher" ->
                IF RetriesResearch(s1)
                THEN Returned(send_message(s1,
                        Instruction("researcher", s1.critic_researcher_feedback,
                                    Some(idx))))
                ELSE LET s2 == [s1 EXCEPT !.current_research_index = idx + 1]
                     IN  IF idx + 1 < Len(s2.research_steps)
                         THEN IF PyIndexOk(s2.research_steps, idx + 1)
                              THEN Returned(send_message(s2,
                                      Instruction("researcher",
                                          ResearchRequest(PyGet(s2.research_steps, idx + 1)),
                                          Some(idx + 1))))
                              ELSE Raised(s2, IndexErrorMessage)
                         ELSE Returned(send_message(s2,
                                  Instruction("researcher", ResearchDone, Some(idx))))
          [] s1.current_step = "critic_researcher" ->
                IF idx < Len(s1.research_results)
                THEN IF PyIndexOk(s1.research_results, idx)
                     THEN Returned(send_message(s1,
                             Instruction("critic_researcher",
                                 ResearchReviewRequest(PyGet(s1.research_results, idx)),
                                 Some(idx))))
                     ELSE Raised(s1, IndexErrorMessage)
                ELSE Returned(send_message(s1,
                        Instruction("critic_researcher", ResearchReviewRequest(""),
                                    Some(idx))))
          [] s1.current_step = "expert" ->
                Returned(send_message(s1,
                    IF s1.critic_expert_decision = "reject"
                    THEN Instruction("expert", s1.critic_expert_feedback, None)
                    ELSE Instruction("expert", ExpertRequest(s1.expert_steps), None)))
          [] s1.current_step = "critic_expert" ->
                Returned(send_message(s1,
                    Instruction("critic_expert", ExpertReviewRequest(s1.expert_answer),
                                None)))
          [] s1.current_step = "finalizer" ->
                Returned(send_message(s1, Instruction("finalizer", FinalizeRequest, None)))
          [] OTHER -> Raised(s1, InvalidStepMessage)

ErrorAnswer(error) == "The question could not be answered due to an error: " \o error
ErrorTrace(component, error) ==
    "System encountered an error in " \o component \o ": " \o error

\* The orchestrator whose error branch also moves current_step.
orchestrator_error_moves_step(s) ==
    IF Truthy(s.error)
    THEN [s EXCEPT
            !.next_step = "finalizer",
            !.current_step = "finalizer",
            !.final_answer = IF @ = "" THEN ErrorAnswer(s.error) ELSE @,
            !.final_reasoning_trace =
                IF @ = "" THEN ErrorTrace(s.error_component, s.error) ELSE @]
    ELSE LET r == execute_next_step(check_retry_limit(determine_next_step(s)))
         IN  IF r.raised = NoneStr
             THEN r.state
             ELSE handle_agent_error(r.state, "orchestrator", r.raised)

\* The orchestrator without its error branch.
orchestrator_ignores_error(s) ==
    LET r == execute_next_step(check_retry_limit(determine_next_step(s)))
    IN  IF r.raised = NoneStr
        THEN r.state
        ELSE handle_agent_error(r.state, "orchestrator", r.raised)

orchestrator(s) ==
    IF Truthy(s.error)
    THEN [s EXCEPT
            !.next_step = "finalizer",
            !.final_answer = IF @ = "" THEN ErrorAnswer(s.error) ELSE @,
            !.final_reasoning_trace =
                IF @ = "" THEN ErrorTrace(s.error_component, s.error) ELSE @]
    ELSE LET r == execute_next_step(check_retry_limit(determine_next_step(s)))
         IN  IF r.raised = NoneStr
             THEN r.state
             ELSE handle_agent_error(r.state, "orchestrator", r.raised)

(***************************************************************************)
(* Conditional edge                                                        *)
(***************************************************************************)
RouterRaises == "ValueError"

\* The router without its finalizer branch.
route_from_orchestrator_no_finalizer(s) ==
    CASE s.current_step = "planner" -> "planner"
      [] s.current_step = "researcher" -> "researcher"
      [] s.current_step = "expert" -> "expert"
      [] s.current_step = "critic_planner" -> "critic"
      [] s.current_step = "critic_researcher" -> "critic"
      [] s.current_step = "critic_expert" -> "critic"
      [] OTHER -> RouterRaises

\* The router sending critic_expert to the expert node.
route_from_orchestrator_critic_expert_to_expert(s) ==
    CASE s.current_step = "planner" -> "planner"
      [] s.current_step = "researcher" -> "researcher"
      [] s.current_step = "expert" -> "expert"
      [] s.current_step = "critic_planner" -> "critic"
      [] s.current_step = "critic_researcher" -> "critic"
      [] s.current_step = "critic_expert" -> "expert"
      [] s.current_step = "finalizer" -> "finalizer"
      [] OTHER -> RouterRaises

route_from_orchestrator(s) ==
    CASE s.current_step = "planner" -> "planner"
      [] s.current_step = "researcher" -> "researcher"
      [] s.current_step = "expert" -> "expert"
      [] s.current_step = "critic_planner" -> "critic"
      [] s.current_step = "critic_researcher" -> "critic"
      [] s.current_step = "critic_expert" -> "critic"
      [] s.current_step = "finalizer" -> "finalizer"
      [] OTHER -> RouterRaises

(***************************************************************************)
(* Responses of the external collaborators (LLM calls and sub-graphs)      *)
(***************************************************************************)
\* A response is the exception the call raised (NoneStr when it returned),
\* whether the returned value passes validate_llm_response, and the value.
Reply(v) == [raised |-> NoneStr, valid |-> TRUE, value |-> v]
InvalidReply == [raised |-> NoneStr, valid |-> FALSE, value |-> <<>>]
Throws(msg) == [raised |-> msg, valid |-> FALSE, value |-> <<>>]

\* A response addressed to the agent that wrote it.
Response_to_self(sender, content, step_id) ==
    AgentMessage(sender, sender, "response", content, step_id)

Response(sender, content, step_id) ==
    AgentMessage(sender, "orchestrator", "response", content, step_id)

\* What a structured-output call hands back: a dict with some fields, or
\* something that is no dict (None, a string, a list).
Dict(fields) == [is_dict |-> TRUE, fields |-> fields]
NotADict == [is_dict |-> FALSE, fields |-> <<>>]

validate_llm_response(response, expected_fields) ==
    IF ~response.is_dict
    THEN FALSE
    ELSE \A field \in expected_fields : field \in DOMAIN response.fields

PlannerFields == {"research_steps", "expert_steps"}
CriticFields == {"decision", "feedback"}

\* The call returned `response`; the adapter validates it against its fields.
Received(response, expected_fields) ==
    [raised |-> NoneStr,
     valid |-> validate_llm_response(response, expected_fields),
     value |-> response.fields]

\* convert_agent_messages_to_langchain: HumanMessage for the orchestrator's
\* messages, AIMessage for the others.
convert_agent_messages_to_langchain(messages) ==
    [i \in 1..Len(messages) |->
        [role |-> IF messages[i].sender = "orchestrator" THEN "human" ELSE "ai",
         content |-> messages[i].content]]

DictSet(d, k, v) == [i \in (DOMAIN d) \cup {k} |-> IF i = k THEN v ELSE d[i]]

(***************************************************************************)
(* Agent nodes                                                             *)
(***************************************************************************)
planner(s, resp) ==
    IF resp.raised # NoneStr
    THEN handle_agent_error(s, "planner", resp.raised)
    ELSE IF ~resp.valid
    THEN handle_agent_error(s, "planner", InvalidResponseMessage)
    ELSE send_message(
            [s EXCEPT !.research_steps = resp.value.research_steps,
                      !.expert_steps = resp.value.expert_steps],
            Response("planner", "Plan complete.", None))

\* Always append, never overwrite.
AppendsResult_always(results, idx) == TRUE

\* `if len(state["research_results"]) <= idx`
AppendsResult(results, idx) == Len(results) <= idx

\* The `try` block of researcher_node; resp is the sub-graph's outcome.
researcher_body(s, resp) ==
    LET idx == s.current_research_index
        message_in == convert_agent_messages_to_langchain(
                        get_agent_conversation(s.agent_messages, "researcher",
                                               None, Some(idx)))
        first == idx \notin DOMAIN s.researcher_states
    IN  IF ~first /\ message_in = <<>>
        THEN Raised(s, IndexErrorMessage)
        ELSE
        LET researcher_state ==
                IF first
                THEN [messages |-> message_in, step_index |-> idx, result |-> NoneStr]
                ELSE [s.researcher_states[idx] EXCEPT
                        !.messages = Append(@, message_in[Len(message_in)])]
            \* on a retry the stored sub-state is extended in place
            s0 == IF first THEN s
                  ELSE [s EXCEPT !.researcher_states[idx] = researcher_state]
        IN  IF resp.raised # NoneStr
            THEN Raised(s0, resp.raised)
            ELSE
            LET done == [researcher_state EXCEPT
                            !.messages = Append(@, [role |-> "ai",
                                                    content |-> resp.value]),
                            !.result = resp.value]
                s1 == [s0 EXCEPT !.researcher_states = DictSet(@, idx, done)]
            IN  IF AppendsResult(s1.research_results, idx)
                THEN LET s2 == [s1 EXCEPT !.research_results = Append(@, done.result)]
                     IN  IF PyIndexOk(s2.research_results, idx)
                         THEN Returned(send_message(s2,
                                Response("researcher",
                                    "Research complete: " \o PyGet(s2.research_results, idx),
                                    Some(idx))))
                         ELSE Raised(s2, IndexErrorMessage)
                ELSE IF PyIndexOk(s1.research_results, idx)
                THEN LET pos == IF idx >= 0 THEN idx + 1
                                ELSE Len(s1.research_results) + idx + 1
                         s2 == [s1 EXCEPT !.research_results[pos] = done.result]
                     IN  Returned(send_message(s2,
                            Response("researcher",
                                "Research complete: " \o PyGet(s2.research_results, idx),
                                Some(idx))))
                ELSE Raised(s1, IndexErrorMessage)

researcher_node(s, resp) ==
    LET r == researcher_body(s, resp)
    IN  IF r.raised = NoneStr THEN r.state
        ELSE handle_agent_error(r.state, "researcher", r.raised)

\* The `try` block of expert; resp is the sub-graph's outcome.
expert_body(s, resp) ==
    LET history == convert_agent_messages_to_langchain(
                        get_agent_conversation(s.agent_messages, "expert", None, None))
    IN  IF history = <<>>
        THEN Raised(s, IndexErrorMessage)
        ELSE
        LET message_in == <<history[Len(history)]>>
            expert_state ==
                IF s.expert_state = None
                THEN [messages |-> message_in, expert_answer |-> ""]
                ELSE [s.expert_state[1] EXCEPT !.messages = @ \o message_in]
            \* on a retry the stored sub-state is extended in place
            s0 == IF s.expert_state = None THEN s
                  ELSE [s EXCEPT !.expert_state = Some(expert_state)]
        IN  IF resp.raised # NoneStr
            THEN Raised(s0, resp.raised)
            ELSE
            LET done == [expert_state EXCEPT
                            !.messages = Append(@, [role |-> "ai",
                                                    content |-> resp.value]),
                            !.expert_answer = resp.value]
                s1 == [s0 EXCEPT !.expert_state = Some(done),
                                 !.expert_answer = done.expert_answer]
            IN  Returned(send_message(s1,
                    Response("expert", "Expert complete: " \o done.expert_answer, None)))

expert(s, resp) ==
    LET r == expert_body(s, resp)
    IN  IF r.raised = NoneStr THEN r.state
        ELSE handle_agent_error(r.state, "expert", r.raised)

(***************************************************************************)
(* Critic                                                                  *)
(***************************************************************************)
CriticResponse(sender, value, step_id) ==
    Response(sender, "Critic complete: " \o value.decision \o ": " \o value.feedback,
             step_id)

handle_critic_planner_review(s, resp) ==
    IF get_agent_conversation(s.agent_messages, "critic_planner", None, None) = <<>>
    THEN handle_agent_error(s, "critic_planner", IndexErrorMessage)
    ELSE IF resp.raised # NoneStr
    THEN handle_agent_error(s, "critic_planner", resp.raised)
    ELSE IF ~resp.valid
    THEN handle_agent_error(s, "critic_planner", "Invalid critic response structure")
    ELSE send_message(
            [s EXCEPT !.critic_planner_decision = resp.value.decision,
                      !.critic_planner_feedback = resp.value.feedback],
            CriticResponse("critic_planner", resp.value, None))

handle_critic_researcher_review(s, resp) ==
    LET idx == s.current_research_index
    IN  IF ~PyIndexOk(s.research_steps, idx)
        THEN handle_agent_error(s, "critic_researcher", IndexErrorMessage)
        ELSE IF get_agent_conversation(s.agent_messages, "critic_researcher",
                                       None, Some(idx)) = <<>>
        THEN handle_agent_error(s, "critic_researcher", IndexErrorMessage)
        ELSE IF resp.raised # NoneStr
        THEN handle_agent_error(s, "critic_researcher", resp.raised)
        ELSE IF ~resp.valid
        THEN handle_agent_error(s, "critic_researcher",
                                "Invalid critic response structure")
        ELSE send_message(
                [s EXCEPT !.critic_researcher_decision = resp.value.decision,
                          !.critic_researcher_feedback = resp.value.feedback],
                CriticResponse("critic_researcher", resp.value, Some(idx)))

handle_critic_expert_review(s, resp) ==
    IF get_agent_conversation(s.agent_messages, "critic_expert", None, None) = <<>>
    THEN handle_agent_error(s, "critic_expert", IndexErrorMessage)
    ELSE IF resp.raised # NoneStr
    THEN handle_agent_error(s, "critic_expert", resp.raised)
    ELSE IF ~resp.valid
    THEN handle_agent_error(s, "critic_expert", "Invalid critic response structure")
    ELSE send_message(
            [s EXCEPT !.critic_expert_decision = resp.value.decision,
                      !.critic_expert_feedback = resp.value.feedback],
            CriticResponse("critic_expert", resp.value, None))

\* The critic reviewing the plan whenever current_step is no critic phase.
critic_defaults_to_planner(s, resp) ==
    CASE s.current_step = "critic_planner" -> handle_critic_planner_review(s, resp)
      [] s.current_step = "critic_researcher" -> handle_critic_researcher_review(s, resp)
      [] s.current_step = "critic_expert" -> handle_critic_expert_review(s, resp)
      [] OTHER -> handle_critic_planner_review(s, resp)

critic(s, resp) ==
    CASE s.current_step = "critic_planner" -> handle_critic_planner_review(s, resp)
      [] s.current_step = "critic_researcher" -> handle_critic_researcher_review(s, resp)
      [] s.current_step = "critic_expert" -> handle_critic_expert_review(s, resp)
      [] OTHER -> handle_agent_error(s, "critic", InvalidCriticStepMessage)

(***************************************************************************)
(* Finalizer                                                               *)
(***************************************************************************)
finalizer(s, resp) ==
    IF resp.raised # NoneStr
    THEN handle_agent_error(s, "finalizer", resp.raised)
    ELSE IF ~resp.valid
    THEN handle_agent_error(s, "finalizer", "Invalid finalizer response structure")
    ELSE send_message(
            [s EXCEPT !.final_answer = resp.value.final_answer,
                      !.final_reasoning_trace = resp.value.final_reasoning_trace],
            Response("finalizer", "Finalizer complete: " \o resp.value.final_answer, None))

(***************************************************************************)
(* Input interface                                                         *)
(***************************************************************************)
\* `state.get("messages")`: the messages given, the content of each as a
\* string; none when the key is absent.
GivenMessages(s) == IF "messages" \in DOMAIN s THEN s.messages ELSE <<>>

\* input_interface that starts the research index at 0.
input_interface_index_zero(s) ==
    [messages |-> GivenMessages(s),
     question |-> IF GivenMessages(s) = <<>> THEN "" ELSE GivenMessages(s)[1],
     files |-> None,
     agent_messages |-> <<>>,
     research_steps |-> <<>>,
     expert_steps |-> <<>>,
     current_research_index |-> 0,
     researcher_states |-> <<>>,
     research_results |-> <<>>,
     expert_state |-> None,
     expert_answer |-> "",
     critic_planner_decision |-> "",
     critic_planner_feedback |-> "",
     critic_researcher_decision |-> "",
     critic_researcher_feedback |-> "",
     critic_expert_decision |-> "",
     critic_expert_feedback |-> "",
     final_answer |-> "",
     final_reasoning_trace |-> "",
     current_step |-> "input",
     next_step |-> "planner",
     retry_count |-> 0,
     retry_limit |-> DefaultRetryLimit,
     error |-> NoneStr,
     error_component |-> NoneStr]

input_interface(s) ==
    [messages |-> GivenMessages(s),
     question |-> IF GivenMessages(s) = <<>> THEN "" ELSE GivenMessages(s)[1],
     files |-> None,
     agent_messages |-> <<>>,
     research_steps |-> <<>>,
     expert_steps |-> <<>>,
     current_research_index |-> InitialResearchIndex,
     researcher_states |-> <<>>,
     research_results |-> <<>>,
     expert_state |-> None,
     expert_answer |-> "",
     critic_planner_decision |-> "",
     critic_planner_feedback |-> "",
     critic_researcher_decision |-> "",
     critic_researcher_feedback |-> "",
     critic_expert_decision |-> "",
     critic_expert_feedback |-> "",
     final_answer |-> "",
     final_reasoning_trace |-> "",
     current_step |-> "input",
     next_step |-> "planner",
     retry_count |-> 0,
     retry_limit |-> DefaultRetryLimit,
     error |-> NoneStr,
     error_component |-> NoneStr]

(***************************************************************************)
(* What the external collaborators may answer                              *)
(***************************************************************************)
StepName(i) == "q" \o ToString(i)
Plan(n) == [research_steps |-> [i \in 1..n |-> StepName(i)],
            expert_steps |-> <<"e1">>]
Plans == {Plan(n) : n \in 0..MaxSteps}

\* Free text of a collaborator: a token that differs from call to call.
FreshText(kind, s) == kind \o ToString(Len(s.agent_messages))

CollaboratorErrorMessage == "Collaborator call failed"
Failures == {Throws(TimeoutMessage), Throws(CollaboratorErrorMessage), InvalidReply}

ValidDecisions == {"approve", "reject"}
AnyDecisions == ValidDecisions \cup {"maybe"}
Verdicts(D, s) == {Reply([decision |-> d, feedback |-> FreshText("feedback", s)]) : d \in D}

FinalReply == Reply([final_answer |-> "final answer",
                     final_reasoning_trace |-> "final trace"])

IsFailure(resp) == resp.raised # NoneStr \/ ~resp.valid

\* A failure that leaves the state as a repeated failure finds it again.
Stationary(s, node) ==
    CASE node = "researcher" -> s.current_research_index \notin DOMAIN s.researcher_states
      [] node = "expert" -> s.expert_state = None
      [] OTHER -> TRUE

\* Outcomes that cannot repeat without end, or that repeat without growing the
\* state, are explored freely; every other outcome uses up one of MaxFaults.
FreeOutcome(s, node, resp) ==
    \/ /\ ~IsFailure(resp)
       /\ ~Truthy(s.error)
       /\ node = "critic" => resp.value.decision \in ValidDecisions
    \/ /\ resp.raised # NoneStr
       /\ MentionsNetworkOrTimeout(resp.raised)
       /\ Stationary(s, node)

\* Outcomes left out of the fair specification, where the budget must never
\* be what stops a run.
GrowsWithoutAlternative(s, node, resp) ==
    \/ IsFailure(resp) /\ ~Stationary(s, node)
    \/ ~IsFailure(resp) /\ Truthy(s.error) /\ node \in {"researcher", "expert"}

Budget(s, node, resp, fair) ==
    IF FreeOutcome(s, node, resp)
    THEN faults' = faults
    ELSE /\ fair => ~GrowsWithoutAlternative(s, node, resp)
         /\ faults < MaxFaults
         /\ faults' = faults + 1

(***************************************************************************)
(* The compiled graph                                                      *)
(***************************************************************************)
Harness == <<query, inbox>>
NoQuery == <<>>
NoVerdicts == [approve |-> 0, reject |-> 0]

\* State handed to graph.invoke: the empty state of the test fixtures
\* (Blank), or one whose fields are left over from an earlier use (Dirty).
Blank == [input_interface(<<>>) EXCEPT !.current_step = "", !.next_step = ""]
Dirty == [Blank EXCEPT !.current_step = "finalizer", !.next_step = "finalizer",
                       !.retry_count = 7, !.retry_limit = 3,
                       !.final_answer = "old answer",
                       !.error = "planner failed: old", !.error_component = "planner",
                       !.critic_planner_decision = "reject",
                       !.current_research_index = 1,
                       !.research_results = <<"old result">>]

RunInit ==
    /\ state \in {Blank, Dirty}
    /\ pc = "input_interface"
    /\ faults = 0
    /\ hist = NoVerdicts
    /\ query = NoQuery /\ inbox = <<>>

\* START -> input_interface -> orchestrator
InputInterface ==
    /\ pc = "input_interface"
    /\ state' = input_interface(state)
    /\ pc' = "orchestrator"
    /\ UNCHANGED <<faults, hist, Harness>>

\* A caller that configures another retry limit than the built-in one before
\* the first orchestrator invocation (as the tests do on the state).
OverrideRetryLimit ==
    /\ pc = "orchestrator"
    /\ state.current_step = "input"
    /\ state.retry_limit = DefaultRetryLimit
    /\ \E L \in 0..MaxRetryLimit : state' = [state EXCEPT !.retry_limit = L]
    /\ UNCHANGED <<pc, faults, hist, Harness>>

\* orchestrator, then the conditional edge route_from_orchestrator; an
\* exception of the router escapes graph.invoke.
Orchestrator ==
    /\ pc = "orchestrator"
    /\ state' = orchestrator(state)
    /\ pc' = IF route_from_orchestrator(state') = RouterRaises
             THEN "crashed"
             ELSE route_from_orchestrator(state')
    /\ UNCHANGED <<faults, hist, Harness>>

Planner(F, fair) ==
    /\ pc = "planner"
    /\ \E resp \in {Reply(p) : p \in Plans} \cup F :
          /\ Budget(state, "planner", resp, fair)
          /\ state' = planner(state, resp)
    /\ pc' = "orchestrator"
    /\ UNCHANGED <<hist, Harness>>

Researcher(F, fair) ==
    /\ pc = "researcher"
    /\ \E resp \in {Reply(FreshText("result", state))} \cup (F \ {InvalidReply}) :
          /\ Budget(state, "researcher", resp, fair)
          /\ state' = researcher_node(state, resp)
    /\ pc' = "orchestrator"
    /\ UNCHANGED <<hist, Harness>>

Expert(F, fair) ==
    /\ pc = "expert"
    /\ \E resp \in {Reply(FreshText("answer", state))} \cup (F \ {InvalidReply}) :
          /\ Budget(state, "expert", resp, fair)
          /\ state' = expert(state, resp)
    /\ pc' = "orchestrator"
    /\ UNCHANGED <<hist, Harness>>

Critic(F, D, fair) ==
    /\ pc = "critic"
    /\ \E resp \in Verdicts(D, state) \cup F :
          /\ Budget(state, "critic", resp, fair)
          /\ state' = critic(state, resp)
          /\ hist' = IF ~IsFailure(resp) /\ resp.value.decision \in ValidDecisions
                     THEN [hist EXCEPT ![resp.value.decision] = @ + 1]
                     ELSE hist
    /\ pc' = "orchestrator"
    /\ UNCHANGED Harness

\* finalizer -> END
Finalizer(F, fair) ==
    /\ pc = "finalizer"
    /\ \E resp \in {FinalReply} \cup F :
          /\ Budget(state, "finalizer", resp, fair)
          /\ state' = finalizer(state, resp)
    /\ pc' = "END"
    /\ UNCHANGED <<hist, Harness>>

\* Every run: any collaborator outcome.
Next ==
    \/ InputInterface
    \/ OverrideRetryLimit
    \/ Orchestrator
    \/ Planner(Failures, FALSE)
    \/ Researcher(Failures, FALSE)
    \/ Expert(Failures, FALSE)
    \/ Critic(Failures, AnyDecisions, FALSE)
    \/ Finalizer(Failures, FALSE)

Spec == RunInit /\ [][Next]_vars

\* Runs whose agents never raise and whose critic answers approve or reject.
NextOK ==
    \/ InputInterface
    \/ OverrideRetryLimit
    \/ Orchestrator
    \/ Planner({}, TRUE)
    \/ Researcher({}, TRUE)
    \/ Expert({}, TRUE)
    \/ Critic({}, ValidDecisions, TRUE)
    \/ Finalizer({}, TRUE)

\* graph.invoke runs the next node as long as there is one.
SpecOK == RunInit /\ [][NextOK]_vars /\ WF_vars(NextOK)

\* Runs whose agents may raise, under the same scheduling.
NextFail ==
    \/ InputInterface
    \/ OverrideRetryLimit
    \/ Orchestrator
    \/ Planner(Failures, TRUE)
    \/ Researcher(Failures, TRUE)
    \/ Expert(Failures, TRUE)
    \/ Critic(Failures, ValidDecisions, TRUE)
    \/ Finalizer(Failures, TRUE)

SpecFail == RunInit /\ [][NextFail]_vars /\ WF_vars(NextFail)

(***************************************************************************)
(* The orchestrator called directly on a prepared state                    *)
(***************************************************************************)
UnitSteps == {"", "input", "planner", "critic_planner", "researcher",
              "critic_researcher", "expert", "critic_expert", "finalizer"}
UnitVerdicts == {"", "approve", "reject"}
UnitErrors == {[error |-> NoneStr, component |-> NoneStr],
               [error |-> "planner failed: boom", component |-> "planner"]}

\* A state as a direct caller prepares it: the defaults with some fields set.
UnitState(c, d1, d2, n, i, rc, rl, e) ==
    [input_interface(<<>>) EXCEPT
        !.current_step = c, !.next_step = "",
        !.critic_planner_decision = d1, !.critic_expert_decision = d1,
        !.critic_researcher_decision = d2,
        !.research_steps = Plan(n).research_steps,
        !.expert_steps = Plan(n).expert_steps,
        !.current_research_index = i,
        !.retry_count = rc, !.retry_limit = rl,
        !.error = e.error, !.error_component = e.component]

UnitInit ==
    /\ \E c \in UnitSteps, d1 \in UnitVerdicts, d2 \in UnitVerdicts,
          n \in 0..MaxSteps, i \in InitialResearchIndex..(MaxSteps - 1),
          rc \in 0..(MaxRetryLimit + 1), rl \in 0..MaxRetryLimit, e \in UnitErrors :
            state = UnitState(c, d1, d2, n, i, rc, rl, e)
    /\ pc = "unit"
    /\ faults = 0
    /\ hist = NoVerdicts
    /\ query = NoQuery /\ inbox = <<>>

\* result = orchestrator(state), possibly on the state a previous call returned
UnitOrchestrator ==
    /\ pc = "unit"
    /\ Len(state.agent_messages) < MaxUnitCalls
    /\ state' = orchestrator(state)
    /\ UNCHANGED <<pc, faults, hist, Harness>>

NextUnit == UnitOrchestrator

SpecUnit == UnitInit /\ [][NextUnit]_vars

(***************************************************************************)
(* get_agent_conversation called on a log built with send_message          *)
(***************************************************************************)
ConvRoles == {"orchestrator", "planner", "researcher"}
ConvMessages ==
    {m \in {AgentMessage(a, b, ty, "c", st) :
                a \in ConvRoles, b \in ConvRoles,
                ty \in {"instruction", "response"}, st \in {None, Some(0)}} :
        m.sender # m.receiver}
ConvTypes == {None, Some(<<>>), Some(<<"instruction">>),
              Some(<<"instruction", "response">>)}
ConvStepIds == {None, Some(0), Some(1)}

ConvInit ==
    /\ state = input_interface(<<>>)
    /\ pc = "conv"
    /\ faults = 0
    /\ hist = NoVerdicts
    /\ query = NoQuery /\ inbox = <<>>

SendMessage ==
    /\ pc = "conv"
    /\ query = NoQuery
    /\ Len(state.agent_messages) < MaxLogLen
    /\ \E m \in ConvMessages : state' = send_message(state, m)
    /\ UNCHANGED <<pc, faults, hist, Harness>>

GetAgentConversation ==
    /\ pc = "conv"
    /\ query = NoQuery
    /\ \E r \in ConvRoles, K \in ConvTypes, st \in ConvStepIds :
          /\ query' = <<[agent_name |-> r, types |-> K, step_id |-> st]>>
          /\ inbox' = get_agent_conversation(state.agent_messages, r, K, st)
    /\ UNCHANGED <<state, pc, faults, hist>>

NextConv ==
    \/ SendMessage
    \/ GetAgentConversation

SpecConv == ConvInit /\ [][NextConv]_vars

(***************************************************************************)
(* The orchestrator's three steps called one after the other on a prepared *)
(* state: determine_next_step, check_retry_limit, execute_next_step        *)
(***************************************************************************)
StepInit ==
    /\ \E c \in UnitSteps, d1 \in UnitVerdicts, d2 \in UnitVerdicts,
          n \in 0..MaxSteps, i \in InitialResearchIndex..(MaxSteps - 1),
          rc \in 0..(MaxRetryLimit + 1), rl \in 0..MaxRetryLimit,
          fa \in {"", "old answer"} :
            state = [UnitState(c, d1, d2, n, i, rc, rl, [error |-> NoneStr,
                                                         component |-> NoneStr])
                        EXCEPT !.final_answer = fa, !.final_reasoning_trace = fa]
    /\ pc = "step1"
    /\ faults = 0
    /\ hist = NoVerdicts
    /\ query = NoQuery /\ inbox = <<>>

DetermineNextStep ==
    /\ pc = "step1"
    /\ state' = determine_next_step(state)
    /\ pc' = "step2"
    /\ UNCHANGED <<faults, hist, Harness>>

CheckRetryLimit ==
    /\ pc = "step2"
    /\ state' = check_retry_limit(state)
    /\ pc' = "step3"
    /\ UNCHANGED <<faults, hist, Harness>>

\* An exception of execute_next_step reaches the caller.
ExecuteNextStep ==
    /\ pc = "step3"
    /\ state' = execute_next_step(state).state
    /\ pc' = IF execute_next_step(state).raised = NoneStr THEN "step4" ELSE "raised"
    /\ UNCHANGED <<faults, hist, Harness>>

NextStep ==
    \/ DetermineNextStep
    \/ CheckRetryLimit
    \/ ExecuteNextStep

SpecStep == StepInit /\ [][NextStep]_vars

(***************************************************************************)
(* input_interface called on two input states side by side                 *)
(***************************************************************************)
InputMessages == {<<>>, <<"q1">>, <<"q2">>, <<"q1", "q2">>}

\* A state with every field left over from an earlier session.
Used == [Dirty EXCEPT !.files = Some(<<"old.txt">>),
                      !.question = "old question",
                      !.agent_messages = <<Instruction("planner", "old", None)>>,
                      !.research_steps = <<"old step">>,
                      !.expert_steps = <<"old step">>,
                      !.researcher_states = DictSet(<<>>, 0, "old state"),
                      !.expert_state = Some("old state"),
                      !.expert_answer = "old answer",
                      !.critic_planner_feedback = "old feedback",
                      !.critic_researcher_decision = "old decision",
                      !.critic_expert_decision = "approve",
                      !.final_reasoning_trace = "old trace",
                      !.current_step = "critic_expert",
                      !.retry_count = 10, !.retry_limit = 20]

InputStates == {[s EXCEPT !.messages = m] : s \in {Blank, Dirty, Used},
                                            m \in InputMessages}

\* state and query[1] are the two input states.
InputInit ==
    /\ state \in InputStates
    /\ \E s2 \in InputStates : query = <<s2>>
    /\ pc = "input_pair"
    /\ faults = 0
    /\ hist = NoVerdicts
    /\ inbox = <<>>

InputInterfacePair ==
    /\ pc = "input_pair"
    /\ state' = input_interface(state)
    /\ query' = <<input_interface(query[1])>>
    /\ pc' = "input_done"
    /\ UNCHANGED <<faults, hist, inbox>>

NextInput == InputInterfacePair

SpecInput == InputInit /\ [][NextInput]_vars

(***************************************************************************)
(* orchestrator called directly at critic_planner on a prepared state      *)
(***************************************************************************)
OldResults == {<<>>, <<"old result">>}
OldResearcherStates == {<<>>, DictSet(<<>>, 0, "old state")}

\* The reviewed plan is in place; research fields may be left over.  query[1]
\* keeps the state the orchestrator was called on.
PlanReviewInit ==
    /\ \E d1 \in UnitVerdicts, d2 \in UnitVerdicts, n \in 0..MaxSteps,
          i \in InitialResearchIndex..(MaxSteps - 1),
          rc \in 0..MaxRetryLimit, rl \in (0..MaxRetryLimit) \cup {DefaultRetryLimit},
          e \in UnitErrors, r \in OldResults, rs \in OldResearcherStates :
            state = [UnitState("critic_planner", d1, d2, n, i, rc, rl, e)
                        EXCEPT !.research_results = r, !.researcher_states = rs]
    /\ query = <<state>>
    /\ pc = "review"
    /\ faults = 0
    /\ hist = NoVerdicts
    /\ inbox = <<>>

PlanReviewOrchestrator ==
    /\ pc = "review"
    /\ state' = orchestrator(state)
    /\ pc' = "reviewed"
    /\ UNCHANGED <<faults, hist, Harness>>

NextPlanReview == PlanReviewOrchestrator

SpecPlanReview == PlanReviewInit /\ [][NextPlanReview]_vars

(***************************************************************************)
(* orchestrator called directly on a state that invites an agent          *)
(***************************************************************************)
InviteSteps == {"", "input", "critic_planner", "critic_researcher", "critic_expert"}
InviteFiles == {None, Some(<<>>), Some(<<"a.txt">>), Some(<<"a.txt", "b.txt">>)}
InviteQuestions == {"", "q1"}

\* The three verdict slots are set independently, each with its feedback;
\* query[1] keeps the state the orchestrator was called on.
InviteInit ==
    /\ \E c \in InviteSteps, dp \in UnitVerdicts, dr \in UnitVerdicts,
          de \in UnitVerdicts, n \in 0..MaxSteps,
          i \in InitialResearchIndex..(MaxSteps - 1),
          f \in InviteFiles, q \in InviteQuestions :
            state = [UnitState(c, dp, dr, n, i, 0, DefaultRetryLimit,
                               [error |-> NoneStr, component |-> NoneStr])
                        EXCEPT !.critic_expert_decision = de,
                               !.critic_planner_feedback = "fix the plan",
                               !.critic_researcher_feedback = "fix the research",
                               !.critic_expert_feedback = "fix the answer",
                               !.files = f, !.question = q]
    /\ query = <<state>>
    /\ pc = "invite"
    /\ faults = 0
    /\ hist = NoVerdicts
    /\ inbox = <<>>

InviteOrchestrator ==
    /\ pc = "invite"
    /\ state' = orchestrator(state)
    /\ pc' = "invited"
    /\ UNCHANGED <<faults, hist, Harness>>

NextInvite == InviteOrchestrator

SpecInvite == InviteInit /\ [][NextInvite]_vars

(***************************************************************************)
(* route_from_orchestrator called directly on a prepared state             *)
(***************************************************************************)
\* Values of current_step: the seven step names, the two initial values,
\* None, and names the router does not know (case and whitespace variants).
RouteSteps == UnitSteps \cup {NoneStr, "invalid_step", "unknown_step", "PLANNER",
                              " planner ", "critic"}

RouteInit ==
    /\ \E c \in RouteSteps, n \in UnitSteps, e \in UnitErrors :
          state = [Blank EXCEPT !.current_step = c, !.next_step = n,
                                !.error = e.error, !.error_component = e.component]
    /\ pc = "route"
    /\ faults = 0
    /\ hist = NoVerdicts
    /\ query = NoQuery /\ inbox = <<>>

\* result = route_from_orchestrator(state): the node returned, or the
\* ValueError raised.
Route ==
    /\ pc = "route"
    /\ pc' = IF route_from_orchestrator(state) = RouterRaises
             THEN "crashed"
             ELSE route_from_orchestrator(state)
    /\ UNCHANGED <<state, faults, hist, Harness>>

NextRoute == Route

SpecRoute == RouteInit /\ [][NextRoute]_vars

(***************************************************************************)
(* The orchestrator node and its conditional edge on a supplied state      *)
(***************************************************************************)
\* The state of a session (next_step as an earlier step left it) with
\* current_step set by the caller; query[1] keeps the state supplied.
SuppliedInit ==
    /\ \E c \in RouteSteps, n \in UnitSteps, rl \in {1, DefaultRetryLimit} :
          state = [input_interface(<<>>) EXCEPT !.current_step = c, !.next_step = n,
                                                !.retry_limit = rl]
    /\ query = <<state>>
    /\ pc = "supplied"
    /\ faults = 0
    /\ hist = NoVerdicts
    /\ inbox = <<>>

\* orchestrator, then route_from_orchestrator on the state it returned.
SuppliedOrchestrator ==
    /\ pc = "supplied"
    /\ state' = orchestrator(state)
    /\ pc' = IF route_from_orchestrator(state') = RouterRaises
             THEN "crashed"
             ELSE route_from_orchestrator(state')
    /\ UNCHANGED <<faults, hist, Harness>>

NextSupplied == SuppliedOrchestrator

SpecSupplied == SuppliedInit /\ [][NextSupplied]_vars

(***************************************************************************)
(* handle_agent_error called directly                                      *)
(***************************************************************************)
HandledComponents == {"test_component", "planner"}
HandledMessages == {"Test error", "Invalid response structure", "Network timeout",
                    "NETWORK DOWN", "Connection TimeOut", "Request Timeout",
                    "net work time out"}

\* query[1] keeps the state handed over, query[2] the component and the
\* message of the exception.
HandleInit ==
    /\ \E n \in {"", "planner", "critic_planner"}, a \in {"", "old answer"},
          rc \in 0..(MaxRetryLimit + 1),
          rl \in (0..MaxRetryLimit) \cup {DefaultRetryLimit}, e \in UnitErrors :
          state = [input_interface(<<>>) EXCEPT
                      !.next_step = n, !.final_answer = a,
                      !.final_reasoning_trace = a,
                      !.retry_count = rc, !.retry_limit = rl,
                      !.error = e.error, !.error_component = e.component]
    /\ \E c \in HandledComponents, m \in HandledMessages :
          query = <<state, [component |-> c, message |-> m]>>
    /\ pc = "handle"
    /\ faults = 0
    /\ hist = NoVerdicts
    /\ inbox = <<>>

HandleAgentError ==
    /\ pc = "handle"
    /\ state' = handle_agent_error(state, query[2].component, query[2].message)
    /\ pc' = "handled"
    /\ UNCHANGED <<faults, hist, Harness>>

NextHandle == HandleAgentError

SpecHandle == HandleInit /\ [][NextHandle]_vars

(***************************************************************************)
(* planner and critic called directly with a prepared collaborator         *)
(***************************************************************************)
AdapterRoles == {"planner", "critic_planner", "critic_researcher", "critic_expert"}

PlannerResponses ==
    {Dict([research_steps |-> <<"s1">>, expert_steps |-> <<"e1">>]),
     Dict([research_steps |-> <<"s1">>]),
     Dict([expert_steps |-> <<"e1">>]),
     Dict(<<>>),
     NotADict}

CriticResponses ==
    {Dict([decision |-> d, feedback |-> "new feedback"]) : d \in AnyDecisions}
      \cup {Dict([decision |-> "approve"]),
            Dict([feedback |-> "new feedback"]),
            Dict(<<>>),
            NotADict}

\* The role has been sent its instruction; the plan and the verdict slots
\* hold what an earlier round left.  query[1] keeps the state the adapter is
\* called on, query[2] what the collaborator returns.
AdapterInit ==
    /\ \E role \in AdapterRoles, d \in UnitVerdicts, n \in 1..MaxSteps,
          rc \in 0..MaxRetryLimit, rl \in {MaxRetryLimit, DefaultRetryLimit} :
          state = send_message(
                    [UnitState(role, d, d, n, 0, rc, rl,
                               [error |-> NoneStr, component |-> NoneStr])
                        EXCEPT !.next_step = role,
                               !.critic_planner_feedback = "old feedback",
                               !.critic_researcher_feedback = "old feedback",
                               !.critic_expert_feedback = "old feedback"],
                    Instruction(role, "request",
                                IF role = "critic_researcher" THEN Some(0) ELSE None))
    /\ \E response \in IF state.current_step = "planner"
                       THEN PlannerResponses ELSE CriticResponses :
          query = <<state, response>>
    /\ pc = "adapter"
    /\ faults = 0
    /\ hist = NoVerdicts
    /\ inbox = <<>>

Adapter ==
    /\ pc = "adapter"
    /\ state' = IF state.current_step = "planner"
                THEN planner(state, Received(query[2], PlannerFields))
                ELSE critic(state, Received(query[2], CriticFields))
    /\ pc' = "answered"
    /\ UNCHANGED <<faults, hist, Harness>>

NextAdapter == Adapter

SpecAdapter == AdapterInit /\ [][NextAdapter]_vars

(***************************************************************************)
(* The research phase of the graph: orchestrator, researcher and critic    *)
(* from the first research instruction until the graph leaves the phase    *)
(***************************************************************************)
\* The state in which the graph dispatches the researcher for the first
\* time: the plan of n steps was approved and step 0 was instructed.
ResearchStart(n) ==
    LET s1 == orchestrator(input_interface(<<>>))
        s2 == planner(s1, Reply(Plan(n)))
        s3 == orchestrator(s2)
        s4 == critic(s3, Reply([decision |-> "approve", feedback |-> "plan ok"]))
    IN  orchestrator(s4)

\* faults counts the visits of the researcher node.
ResearchInit ==
    /\ \E n \in 1..MaxSteps : state = ResearchStart(n)
    /\ pc = "researcher"
    /\ faults = 0
    /\ hist = NoVerdicts
    /\ query = NoQuery /\ inbox = <<>>

\* researcher_node; its sub-graph returns a result or raises.
ResearchVisit ==
    /\ pc = "researcher"
    /\ faults < MaxVisits
    /\ \E resp \in {Reply(FreshText("result", state)), Throws(TimeoutMessage),
                    Throws(CollaboratorErrorMessage)} :
          state' = researcher_node(state, resp)
    /\ faults' = faults + 1
    /\ pc' = "orchestrator"
    /\ UNCHANGED <<hist, Harness>>

\* orchestrator, then the conditional edge.
ResearchOrchestrator ==
    /\ pc = "orchestrator"
    /\ state' = orchestrator(state)
    /\ pc' = IF route_from_orchestrator(state') = RouterRaises
             THEN "crashed"
             ELSE route_from_orchestrator(state')
    /\ UNCHANGED <<faults, hist, Harness>>

\* critic, with a verdict of the collaborator.
ResearchCritic ==
    /\ pc = "critic"
    /\ \E resp \in Verdicts(ValidDecisions, state) : state' = critic(state, resp)
    /\ pc' = "orchestrator"
    /\ UNCHANGED <<faults, hist, Harness>>

NextResearch == ResearchVisit \/ ResearchOrchestrator \/ ResearchCritic

SpecResearch == ResearchInit /\ [][NextResearch]_vars

(***************************************************************************)
(* The critic node called directly on a state, as the tests call it        *)
(***************************************************************************)
CriticReplies ==
    {Reply([decision |-> d, feedback |-> "new feedback"]) : d \in AnyDecisions}
      \cup {InvalidReply, Throws(CollaboratorErrorMessage)}

\* Any current_step; the verdict slots, the plan and one research result are
\* what earlier rounds left; the log holds the instruction of the critic phase
\* (of critic_planner when current_step is none) or is empty.  query[1] keeps
\* the state the critic is called on, query[2] what the collaborator returns.
CriticInit ==
    /\ \E c \in RouteSteps, d1 \in UnitVerdicts, d2 \in UnitVerdicts,
          n \in 1..MaxSteps, rc \in 0..MaxRetryLimit,
          rl \in {MaxRetryLimit, DefaultRetryLimit}, instructed \in BOOLEAN :
          LET phase == IF c \in {"critic_planner", "critic_researcher", "critic_expert"}
                       THEN c ELSE "critic_planner"
              s == [UnitState(c, d1, d2, n, 0, rc, rl,
                              [error |-> NoneStr, component |-> NoneStr])
                      EXCEPT !.next_step = c,
                             !.research_results = <<"result0">>,
                             !.expert_answer = "answer",
                             !.critic_planner_feedback = "old feedback",
                             !.critic_researcher_feedback = "old feedback",
                             !.critic_expert_feedback = "old feedback"]
          IN  state = IF instructed
                      THEN send_message(s, Instruction(phase, "request",
                              IF phase = "critic_researcher" THEN Some(0) ELSE None))
                      ELSE s
    /\ \E resp \in CriticReplies : query = <<state, resp>>
    /\ pc = "critique"
    /\ faults = 0
    /\ hist = NoVerdicts
    /\ inbox = <<>>

CriticCall ==
    /\ pc = "critique"
    /\ state' = critic(state, query[2])
    /\ pc' = "critiqued"
    /\ UNCHANGED <<faults, hist, Harness>>

NextCritic == CriticCall

SpecCritic == CriticInit /\ [][NextCritic]_vars

(***************************************************************************)
(* Runs whose critic may return a decision that is neither approve nor     *)
(* reject; faults counts these verdicts                                    *)
(***************************************************************************)
\* critic, with any decision of the collaborator, or failing.
UndecidedCritic ==
    /\ pc = "critic"
    /\ \E resp \in Verdicts(AnyDecisions, state) \cup {Throws(CollaboratorErrorMessage)} :
          /\ IF FreeOutcome(state, "critic", resp)
             THEN faults' = faults
             ELSE faults < MaxUndecided /\ faults' = faults + 1
          /\ state' = critic(state, resp)
          /\ hist' = IF ~IsFailure(resp) /\ resp.value.decision \in ValidDecisions
                     THEN [hist EXCEPT ![resp.value.decision] = @ + 1]
                     ELSE hist
    /\ pc' = "orchestrator"
    /\ UNCHANGED Harness

NextUndecided ==
    \/ InputInterface
    \/ OverrideRetryLimit
    \/ Orchestrator
    \/ Planner({}, TRUE)
    \/ Researcher({}, TRUE)
    \/ Expert({}, TRUE)
    \/ UndecidedCritic
    \/ Finalizer({}, TRUE)

SpecUndecided == RunInit /\ [][NextUndecided]_vars

(***************************************************************************)
(* Properties                                                              *)
(***************************************************************************)

\* C1: a run that starts at input_interface, whose agents never raise and
\* whose critic answers approve or reject, eventually ends with
\* current_step = finalizer, for every retry limit and every plan; the loop
\* orchestrator -> agent -> orchestrator cannot run forever.
C1_Termination == <>(pc = "END" /\ state.current_step = "finalizer")

\* A run that ended after rejections and approvals on a plan with research.
C1_Witness ==
    /\ pc = "END" /\ state.current_step = "finalizer"
    /\ hist.reject > 0 /\ hist.approve > 0
    /\ Len(state.research_results) > 1

\* C2: a run in which agents may raise, whatever the message, still reaches
\* the finalizer and ends.
C2_RunWithRaisingAgentEnds == <>(pc = "END")

\* C3: when the critic rejected every review of a run, the run ends with
\* final_answer equal to the fixed failure sentence.
C3_AllRejectedEndsWithFailureAnswer ==
    (pc = "END" /\ hist.approve = 0 /\ hist.reject > 0)
        => state.final_answer = FAILURE_ANSWER

\* C4: when a run has ended, final_answer is a non-empty string, on every
\* path, the finalizer's collaborator failing included.
C4_FinalAnswerNonEmptyAtEnd == pc = "END" => state.final_answer # ""

\* C5: an orchestrator invocation on a state whose error field is set leaves
\* next_step = finalizer and the router dispatches the finalizer next.
C5_ErrorStateRoutesToFinalizer ==
    [][(pc = "orchestrator" /\ Truthy(state.error))
          => (state'.next_step = "finalizer" /\ pc' = "finalizer")]_vars

\* A critic step whose stored verdict is reject, on a state without error:
\* the case in which determine_next_step counts a retry.
CountsRetry(s) ==
    /\ ~Truthy(s.error)
    /\ \/ s.current_step = "critic_planner" /\ s.critic_planner_decision = "reject"
       \/ s.current_step = "critic_researcher" /\ s.critic_researcher_decision = "reject"
       \/ s.current_step = "critic_expert" /\ s.critic_expert_decision = "reject"

\* C6 (as stated): once retry_count >= retry_limit, every orchestrator
\* invocation, whatever current_step and verdict, ends with
\* next_step = finalizer and leaves retry_count unchanged.
C6_FailureStateIdempotent ==
    [][(pc = "unit" /\ state.retry_count >= state.retry_limit)
          => (state'.next_step = "finalizer"
              /\ state'.retry_count = state.retry_count)]_vars

\* C6 (amended): once retry_count >= retry_limit, every orchestrator
\* invocation ends with next_step = finalizer; retry_count is unchanged,
\* except that an invocation on a state without error at a critic step whose
\* stored verdict is reject adds exactly 1.
C6_FailureStateKeepsFinalizer ==
    [][(pc = "unit" /\ state.retry_count >= state.retry_limit)
          => (/\ state'.next_step = "finalizer"
              /\ state'.retry_count =
                    state.retry_count + (IF CountsRetry(state) THEN 1 ELSE 0))]_vars

\* A second invocation past the limit, after a first one that counted a reject.
C6_Witness ==
    /\ pc = "unit"
    /\ state.retry_count > state.retry_limit + 1
    /\ state.next_step = "finalizer" /\ state.current_step = "finalizer"
    /\ Len(state.agent_messages) = 2

\* C7 (as stated): after input_interface, current_research_index changes only
\* in an orchestrator invocation at critic_researcher with verdict approve,
\* and then by exactly +1.
C7_IndexMovesOnlyOnResearchApprove ==
    [][(pc # "input_interface"
        /\ state'.current_research_index # state.current_research_index)
          => (/\ state'.current_research_index = state.current_research_index + 1
              /\ pc = "orchestrator"
              /\ state.current_step = "critic_researcher"
              /\ state.critic_researcher_decision = "approve")]_vars

\* C7 (amended): after input_interface, current_research_index never
\* decreases and moves by exactly +1 when it moves; it moves only in an
\* orchestrator invocation, on a state without error, that dispatches the
\* researcher for a new step: at critic_researcher with verdict approve, or at
\* critic_planner with verdict approve of a plan that has research steps
\* (-1 to 0).  A critic_researcher reject, and every invocation that does not
\* dispatch the researcher, leave it unchanged.
C7_IndexMonotone ==
    [][pc # "input_interface" =>
        LET i == state.current_research_index
            j == state'.current_research_index
        IN  /\ j \in {i, i + 1}
            /\ j = i + 1 =>
                 /\ pc = "orchestrator"
                 /\ ~Truthy(state.error)
                 /\ state'.current_step = "researcher"
                 /\ \/ /\ state.current_step = "critic_researcher"
                       /\ state.critic_researcher_decision = "approve"
                    \/ /\ state.current_step = "critic_planner"
                       /\ state.critic_planner_decision = "approve"
                       /\ Len(state.research_steps) > 0
                       /\ i = InitialResearchIndex
            /\ (pc = "orchestrator" /\ state.current_step = "critic_researcher"
                /\ state.critic_researcher_decision = "reject") => j = i
            /\ (pc = "orchestrator" /\ state'.current_step # "researcher") => j = i]_vars

\* The researcher is dispatched for the second step after a rejection.
C7_Witness ==
    /\ pc = "researcher"
    /\ state.current_research_index = 1
    /\ state.critic_researcher_decision = "approve"
    /\ hist.reject > 0

\* The researcher's report for step i: the content of its latest response
\* message with that step id ("" when there is none).
ReportFor(s, i) ==
    LET at == {k \in 1..Len(s.agent_messages) :
                  /\ s.agent_messages[k].sender = "researcher"
                  /\ s.agent_messages[k].step_id = Some(i)}
    IN  IF at = {} THEN ""
        ELSE s.agent_messages[CHOOSE k \in at : \A l \in at : l <= k].content

\* C8: research_results grows by one entry per research step: when steps
\* 0..k were processed with approvals only, it has k+1 entries and entry i is
\* the researcher's result for step i; a researcher run on a step it already
\* ran (a retry) leaves the length unchanged and overwrites that entry only;
\* the list never holds more entries than steps dispatched (not pre-sized).
C8_ResearchResultGrowth ==
    [][LET R == state.research_results
           idx == state.current_research_index
           Rn == state'.research_results
       IN  /\ (pc = "researcher"
               /\ Len(state'.agent_messages) = Len(state.agent_messages) + 1)
                 => /\ Len(Rn) = IF idx \in DOMAIN state.researcher_states
                                 THEN Len(R) ELSE Len(R) + 1
                    /\ Len(Rn) = idx + 1
                    /\ \A j \in 1..Len(R) : j # idx + 1 => Rn[j] = R[j]
                    /\ "Research complete: " \o Rn[idx + 1] = ReportFor(state', idx)
                    /\ Rn[idx + 1] = FreshText("result", state)
           /\ pc' # "input_interface"
                 => /\ Len(Rn) <= state'.current_research_index + 1
                    /\ Len(Rn) <= Len(state'.research_steps)
           /\ (pc' = "critic" /\ state'.current_step = "critic_researcher"
               /\ hist.reject = 0 /\ ~Truthy(state'.error))
                 => /\ Len(Rn) = state'.current_research_index + 1
                    /\ \A k \in 0..state'.current_research_index :
                          "Research complete: " \o Rn[k + 1] = ReportFor(state', k)]_vars

\* Step 0 was researched twice and step 1 once: two entries, the first
\* holding the result of the second run on step 0.
C8_Witness ==
    /\ Len(state.research_results) = 2
    /\ 0 \in DOMAIN state.researcher_states
    /\ Len(state.researcher_states[0].messages) > 2
    /\ "Research complete: " \o state.research_results[1] = ReportFor(state, 0)
    /\ hist.reject > 0

\* out holds exactly the entries of L at the positions M, in the order of L.
ExactlyInOrder(out, L, M) ==
    /\ Len(out) = Cardinality(M)
    /\ \A i \in M : out[Cardinality({j \in M : j <= i})] = L[i]

\* Positions of L whose message was exchanged between role r and the orchestrator.
ConversationOf(L, r) ==
    {i \in 1..Len(L) :
        \/ L[i].sender = r /\ L[i].receiver = "orchestrator"
        \/ L[i].sender = "orchestrator" /\ L[i].receiver = r}

\* C9: get_agent_conversation(L, r) returns exactly the messages of L exchanged
\* between r and the orchestrator, in log order, none dropped, duplicated or
\* from another role; it is empty when nothing matches.
C9_ConversationFilter ==
    (pc = "conv" /\ query # NoQuery
     /\ query[1].types = None /\ query[1].step_id = None)
        => ExactlyInOrder(inbox, state.agent_messages,
                          ConversationOf(state.agent_messages, query[1].agent_name))

\* A log with a planner message and another role's message, queried for the planner.
C9_Witness ==
    /\ pc = "conv" /\ query # NoQuery
    /\ query[1].types = None /\ query[1].step_id = None
    /\ query[1].agent_name = "planner"
    /\ Len(state.agent_messages) = 2
    /\ Len(inbox) = 1
    /\ inbox[1] = state.agent_messages[2]

\* C10: with a step id s and a list of kinds K both given (K may be empty),
\* get_agent_conversation(L, r, K, s) returns the role's conversation
\* restricted to step_id = s and to messages whose type is in K, in log order.
C10_StepAndTypeFilter ==
    (pc = "conv" /\ query # NoQuery
     /\ query[1].types # None /\ query[1].step_id # None)
        => ExactlyInOrder(inbox, state.agent_messages,
              {i \in ConversationOf(state.agent_messages, query[1].agent_name) :
                  /\ state.agent_messages[i].step_id = query[1].step_id
                  /\ InList(state.agent_messages[i].type, query[1].types[1])})

\* C11: the router maps planner, researcher, expert and finalizer to the node
\* of the same name and the three critic steps to the one node critic; for
\* every other current_step ("" , input, None, case or whitespace variants)
\* it raises instead of returning a node; nothing else in the state matters.
C11_RouterTable ==
    [][pc = "route" =>
        /\ state.current_step \in {"planner", "researcher", "expert", "finalizer"}
              => pc' = state.current_step
        /\ state.current_step \in {"critic_planner", "critic_researcher", "critic_expert"}
              => pc' = "critic"
        /\ state.current_step \notin {"planner", "researcher", "expert", "finalizer",
                                      "critic_planner", "critic_researcher",
                                      "critic_expert"}
              => pc' = "crashed"]_vars

\* The router was given critic_expert and returned the critic node.
C11_Witness ==
    /\ pc = "critic"
    /\ state.current_step = "critic_expert"
    /\ state.agent_messages = <<>>
    /\ state.next_step = "planner"

\* C12: check_retry_limit sets next_step = finalizer and final_answer and
\* final_reasoning_trace to the failure sentence when retry_count >=
\* retry_limit; otherwise it leaves the three unchanged; it never changes
\* retry_count (nor any other field).
C12_CheckRetryLimit ==
    [][pc = "step2" =>
        /\ state.retry_count >= state.retry_limit
              => state' = [state EXCEPT !.next_step = "finalizer",
                                        !.final_answer = FAILURE_ANSWER,
                                        !.final_reasoning_trace = FAILURE_ANSWER]
        /\ state.retry_count < state.retry_limit
              => /\ state'.next_step = state.next_step
                 /\ state'.final_answer = state.final_answer
                 /\ state'.final_reasoning_trace = state.final_reasoning_trace
        /\ state'.retry_count = state.retry_count]_vars

\* The check has just overridden a planner retry at the limit.
C12_Witness ==
    /\ pc = "step3"
    /\ state.current_step = "critic_planner"
    /\ state.critic_planner_decision = "reject"
    /\ state.retry_count = state.retry_limit /\ state.retry_count > 0
    /\ state.next_step = "finalizer"
    /\ state.final_reasoning_trace = FAILURE_ANSWER

\* C13: in every state of a run after input_interface, retry_count <=
\* retry_limit, whether the counter was raised by rejections or by agent errors.
C13_RetryCountWithinLimit ==
    pc # "input_interface" => state.retry_count <= state.retry_limit

\* A reject verdict the critic has returned and the orchestrator has not yet
\* processed.
PendingReject ==
    IF pc = "orchestrator" /\ CountsRetry(state) THEN 1 ELSE 0

\* C14: in a run without agent errors retry_count equals the number of reject
\* verdicts the orchestrator has processed, whichever critic phase gave them
\* (one counter for all roles), and processing an approve leaves it unchanged.
C14_RetryCountCountsRejects ==
    [][/\ pc' # "input_interface"
            => state'.retry_count = hist'.reject - PendingReject'
       /\ (pc = "orchestrator"
           /\ \/ state.current_step = "critic_planner"
                    /\ state.critic_planner_decision = "approve"
              \/ state.current_step = "critic_researcher"
                    /\ state.critic_researcher_decision = "approve"
              \/ state.current_step = "critic_expert"
                    /\ state.critic_expert_decision = "approve")
            => state'.retry_count = state.retry_count]_vars

\* A run that ended after a reject of the plan and a reject of the expert's
\* answer, counted together.
C14_Witness ==
    /\ pc = "END"
    /\ state.retry_count = 2 /\ hist.reject = 2 /\ hist.approve > 1
    /\ \E k \in 1..Len(state.agent_messages) :
          /\ state.agent_messages[k].sender = "critic_planner"
          /\ state.agent_messages[k].content
                = "Critic complete: reject: feedback" \o ToString(k - 1)
    /\ \E k \in 1..Len(state.agent_messages) :
          /\ state.agent_messages[k].sender = "critic_expert"
          /\ state.agent_messages[k].content
                = "Critic complete: reject: feedback" \o ToString(k - 1)

\* The transitions of current_step that determine_next_step describes.
StepTransitions ==
    {<<"input", "planner">>, <<"planner", "critic_planner">>,
     <<"critic_planner", "planner">>, <<"critic_planner", "researcher">>,
     <<"critic_planner", "expert">>, <<"researcher", "critic_researcher">>,
     <<"critic_researcher", "researcher">>, <<"critic_researcher", "expert">>,
     <<"expert", "critic_expert">>, <<"critic_expert", "expert">>,
     <<"critic_expert", "finalizer">>}

\* C15: after input_interface, current_step changes only in an orchestrator
\* invocation and only along the state machine, or to finalizer when the
\* retry limit is reached; the run ends only at the finalizer, no node runs
\* after the finalizer has returned, and the router never fails.
C15_StepStateMachine ==
    [][/\ (pc # "input_interface" /\ state'.current_step # state.current_step)
            => /\ pc = "orchestrator"
               /\ \/ <<state.current_step, state'.current_step>> \in StepTransitions
                  \/ /\ state'.current_step = "finalizer"
                     /\ state'.retry_count >= state'.retry_limit
       /\ pc # "END"
       /\ pc' = "END" => (pc = "finalizer" /\ state'.current_step = "finalizer")
       /\ pc' # "crashed"]_vars

\* The run ended at the finalizer after the whole state machine was walked.
C15_Witness ==
    /\ pc = "END" /\ state.current_step = "finalizer"
    /\ state.critic_expert_decision = "approve"
    /\ state.critic_researcher_decision = "approve"
    /\ state.retry_count < state.retry_limit
    /\ hist.reject > 0

\* The agents that have answered so far, in order.
Responders(s) ==
    LET resp == SelectSeq(s.agent_messages, LAMBDA m : m.type = "response")
    IN  [k \in 1..Len(resp) |-> resp[k].sender]

ExpertOnlyOrder == <<"planner", "critic_planner", "expert", "critic_expert", "finalizer">>

\* C16: while the plan has no research steps and the critic has only
\* approved, the agents run in the order planner, critic (plan), expert,
\* critic (expert), finalizer, the researcher is never dispatched,
\* current_research_index stays -1 and research_results stays empty; at the
\* end of the run all five have run.
C16_EmptyPlanSkipsResearch ==
    (pc # "input_interface" /\ state.research_steps = <<>> /\ hist.reject = 0
     /\ state.retry_limit > 0)
        => /\ state.current_research_index = InitialResearchIndex
           /\ state.research_results = <<>>
           /\ pc # "researcher"
           /\ state.current_step \notin {"researcher", "critic_researcher"}
           /\ Len(Responders(state)) <= Len(ExpertOnlyOrder)
           /\ \A k \in 1..Len(Responders(state)) :
                  Responders(state)[k] = ExpertOnlyOrder[k]
           /\ pc = "END" => Responders(state) = ExpertOnlyOrder

\* A run on an empty plan with two approvals has ended.
C16_Witness ==
    /\ pc = "END"
    /\ state.research_steps = <<>> /\ state.expert_steps # <<>>
    /\ hist.reject = 0 /\ hist.approve = 2
    /\ state.expert_answer # ""
    /\ Responders(state) = ExpertOnlyOrder

\* Two message lists with the same first message (or both empty).
SameFirstMessage(m1, m2) ==
    \/ m1 = <<>> /\ m2 = <<>>
    \/ m1 # <<>> /\ m2 # <<>> /\ m1[1] = m2[1]

\* Every field other than messages and question holds its default.
FieldsAtDefault(s) ==
    /\ s.agent_messages = <<>> /\ s.files = None
    /\ s.research_steps = <<>> /\ s.expert_steps = <<>>
    /\ s.current_research_index = -1
    /\ s.researcher_states = <<>> /\ s.research_results = <<>>
    /\ s.expert_state = None /\ s.expert_answer = ""
    /\ s.critic_planner_decision = "" /\ s.critic_planner_feedback = ""
    /\ s.critic_researcher_decision = "" /\ s.critic_researcher_feedback = ""
    /\ s.critic_expert_decision = "" /\ s.critic_expert_feedback = ""
    /\ s.final_answer = "" /\ s.final_reasoning_trace = ""
    /\ s.current_step = "input" /\ s.next_step = "planner"
    /\ s.retry_count = 0 /\ s.retry_limit = 5
    /\ s.error = NoneStr /\ s.error_component = NoneStr

\* C17 (as stated): for two input states with the same first message the
\* states input_interface returns are equal.
C17_SameFirstMessageSameState ==
    (pc = "input_done" /\ SameFirstMessage(state.messages, query[1].messages))
        => state = query[1]

\* C17 (amended): input_interface returns every field other than messages at
\* its default whatever the input held, question taken from the first message
\* ("" without messages), and messages as given; so for two inputs with the
\* same first message the returned states are equal in every field other than
\* messages.
C17_InputInterfaceResets ==
    pc = "input_done" =>
        /\ FieldsAtDefault(state) /\ FieldsAtDefault(query[1])
        /\ state.question = IF state.messages = <<>> THEN "" ELSE state.messages[1]
        /\ SameFirstMessage(state.messages, query[1].messages)
              => [state EXCEPT !.messages = <<>>] = [query[1] EXCEPT !.messages = <<>>]

\* Two inputs with the same question, one of them with a further message.
C17_Witness ==
    /\ pc = "input_done"
    /\ state.messages = <<"q1">> /\ query[1].messages = <<"q1", "q2">>
    /\ state.question = "q1" /\ query[1].question = "q1"

\* Orchestrator invocations so far in a run without errors: each one sends
\* exactly one instruction.
Invocations(s) ==
    Len(SelectSeq(s.agent_messages, LAMBDA m : m.sender = "orchestrator"))

Reviewed == {"planner", "researcher", "expert"}

VerdictOn(s, X) ==
    CASE X = "planner" -> s.critic_planner_decision
      [] X = "researcher" -> s.critic_researcher_decision
      [] X = "expert" -> s.critic_expert_decision

\* The orchestrator is invoked at critic_X with verdict reject, and the limit
\* is not reached after the increment.
RejectedBelowLimit(X) ==
    /\ pc = "orchestrator" /\ pc' # "orchestrator"
    /\ state.current_step = "critic_" \o X
    /\ VerdictOn(state, X) = "reject"
    /\ state.retry_count + 1 < state.retry_limit

RetriesRole(X) ==
    /\ state'.next_step = X /\ state'.current_step = X
    /\ state'.retry_count = state.retry_count + 1
    /\ X = "researcher"
          => state'.current_research_index = state.current_research_index

\* C19 (as stated): an orchestrator invocation at critic_X with verdict reject
\* and the limit not reached after the increment sets next_step and
\* current_step to X and adds exactly 1 to retry_count; the researcher's
\* current_research_index is unchanged.
C19_RejectRetriesRole ==
    [][\A X \in Reviewed : RejectedBelowLimit(X) => RetriesRole(X)]_vars

\* C19 (amended): the same, for an invocation on a state without a recorded
\* error; with an error recorded the invocation only sets next_step to
\* finalizer and leaves current_step and retry_count alone.
C19_RejectRetriesRoleWithoutError ==
    [][\A X \in Reviewed :
          RejectedBelowLimit(X)
            => IF state.error = NoneStr
               THEN /\ RetriesRole(X)
                    /\ pc' = X
                    /\ state'.agent_messages[Len(state'.agent_messages)].receiver = X
               ELSE /\ state'.next_step = "finalizer"
                    /\ state'.current_step = state.current_step
                    /\ state'.retry_count = state.retry_count]_vars

\* The researcher was sent back to retry research step 1 after a reject.
C19_Witness ==
    /\ pc = "researcher"
    /\ state.critic_researcher_decision = "reject"
    /\ state.current_step = "researcher" /\ state.next_step = "researcher"
    /\ state.current_research_index = 1
    /\ state.retry_count = 1 /\ state.retry_limit = DefaultRetryLimit
    /\ state.error = NoneStr

Called == query[1]

LastInstruction(s) == s.agent_messages[Len(s.agent_messages)]

ApprovedPlan == pc = "reviewed" /\ Called.critic_planner_decision = "approve"

StartsResearch ==
    /\ state.next_step = "researcher" /\ state.current_step = "researcher"
    /\ state.research_results = <<>> /\ state.researcher_states = <<>>

FirstStepInstructed ==
    /\ state.current_research_index = 0
    /\ LastInstruction(state)
          = Instruction("researcher", ResearchRequest(state.research_steps[1]), Some(0))

ResearchApproved ==
    /\ pc = "orchestrator" /\ pc' # "orchestrator"
    /\ state.current_step = "critic_researcher"
    /\ state.critic_researcher_decision = "approve"

ContinuesResearch ==
    IF state.current_research_index + 1 >= Len(state.research_steps)
    THEN /\ state'.next_step = "expert" /\ state'.current_step = "expert"
         /\ state'.current_research_index = state.current_research_index
    ELSE /\ state'.next_step = "researcher" /\ state'.current_step = "researcher"
         /\ state'.current_research_index = state.current_research_index + 1
         /\ LastInstruction(state')
              = Instruction("researcher",
                    ResearchRequest(
                        state.research_steps[state.current_research_index + 2]),
                    Some(state.current_research_index + 1))

\* C21 (as stated): an orchestrator invocation at critic_researcher with
\* verdict approve goes to expert exactly when current_research_index + 1 >=
\* len(research_steps), and otherwise goes to researcher with the index
\* advanced by 1 and an instruction for that research step.
C21_ApprovedResearchContinues ==
    [][ResearchApproved => ContinuesResearch]_vars

\* C21 (amended): the same for an invocation on a state without a recorded
\* error; with an error recorded the invocation sends nothing, leaves the
\* index and current_step alone and sets next_step to finalizer.
C21_ApprovedResearchContinuesWithoutError ==
    [][ResearchApproved
         => IF state.error = NoneStr
            THEN /\ ContinuesResearch
                 /\ Len(state'.agent_messages) = Len(state.agent_messages) + 1
                 /\ state'.retry_count = state.retry_count
            ELSE /\ state'.next_step = "finalizer"
                 /\ state'.current_step = state.current_step
                 /\ state'.current_research_index = state.current_research_index
                 /\ state'.agent_messages = state.agent_messages]_vars

\* After the first of two research steps was approved the researcher holds
\* the instruction for the second.
C21_Witness ==
    /\ pc = "researcher" /\ state.error = NoneStr
    /\ state.critic_researcher_decision = "approve"
    /\ Len(state.research_steps) = 2
    /\ state.current_research_index = 1
    /\ LastInstruction(state)
         = Instruction("researcher", ResearchRequest(state.research_steps[2]), Some(1))

\* C22: every orchestrator invocation sets current_step = next_step and
\* appends exactly one message to the log, an instruction with sender
\* orchestrator whose receiver is the new current_step.
C22_OneInstructionPerInvocation ==
    [][(pc = "orchestrator" /\ pc' # "orchestrator")
         => /\ state'.current_step = state'.next_step
            /\ Len(state'.agent_messages) = Len(state.agent_messages) + 1
            /\ SubSeq(state'.agent_messages, 1, Len(state.agent_messages))
                 = state.agent_messages
            /\ LastInstruction(state').sender = "orchestrator"
            /\ LastInstruction(state').type = "instruction"
            /\ LastInstruction(state').receiver = state'.current_step]_vars

FeedbackOn(s, X) ==
    CASE X = "planner" -> s.critic_planner_feedback
      [] X = "researcher" -> s.critic_researcher_feedback
      [] X = "expert" -> s.critic_expert_feedback

\* The orchestrator appended its instruction for the reviewed agent X.
Invited(X) ==
    /\ pc = "invited" /\ state.current_step = X
    /\ Len(state.agent_messages) = Len(Called.agent_messages) + 1
    /\ LastInstruction(state).sender = "orchestrator"
    /\ LastInstruction(state).type = "instruction"
    /\ LastInstruction(state).receiver = X

PlanRequestFor(question, files) ==
    "Develop a logical plan to answer the following question: " \o question
      \o (CASE files = Some(<<"a.txt">>) ->
                 "\nInclude using following files in the research steps: a.txt"
            [] files = Some(<<"a.txt", "b.txt">>) ->
                 "\nInclude using following files in the research steps: a.txt\nb.txt"
            [] OTHER -> "")

FirstPassRequest(X) ==
    CASE X = "planner" -> PlanRequestFor(Called.question, Called.files)
      [] X = "researcher" ->
            "Research the following topic or question: "
                \o state.research_steps[state.current_research_index + 1]
      [] X = "expert" ->
            "Perform the following step(s) to answer the question: e1"

\* C23: when the orchestrator invites a reviewed agent, it appends one
\* instruction addressed to that agent; with a reject verdict of that agent's
\* critic stored its content is exactly that critic's feedback, and otherwise
\* it is the first-pass request (for the planner the question plus the file
\* reference, if any).
C23_RetryCarriesFeedback ==
    pc = "invited"
      => /\ state.current_step \in Reviewed
              => /\ Invited(state.current_step)
                 /\ LastInstruction(state).content
                      = IF VerdictOn(Called, state.current_step) = "reject"
                        THEN FeedbackOn(Called, state.current_step)
                        ELSE FirstPassRequest(state.current_step)
         /\ \A X \in Reviewed :
              (Called.current_step = "critic_" \o X /\ VerdictOn(Called, X) = "reject")
                 => state.current_step = X

\* The planner was rejected and re-invited with the critic's feedback, in a
\* session whose first-pass request would have named two files.
C23_Witness ==
    /\ Invited("planner")
    /\ Called.current_step = "critic_planner"
    /\ Called.critic_planner_decision = "reject"
    /\ Called.files = Some(<<"a.txt", "b.txt">>)
    /\ LastInstruction(state).content = "fix the plan"

ResearchRoles == {"researcher", "critic_researcher"}

\* C24: every instruction the orchestrator sends to researcher or
\* critic_researcher carries step_id = current_research_index; whenever
\* current_step is researcher or critic_researcher the index is within the
\* plan, 0 <= current_research_index < len(research_steps); and the
\* instruction 'All research steps completed.' is never sent.
C24_ResearchIndexWithinPlan ==
    [][pc' # "input_interface"
         => /\ state'.current_step \in ResearchRoles
                => /\ 0 <= state'.current_research_index
                   /\ state'.current_research_index < Len(state'.research_steps)
            /\ \A k \in 1..Len(state'.agent_messages) :
                   state'.agent_messages[k].content # ResearchDone
            /\ (/\ pc = "orchestrator"
                /\ Len(state'.agent_messages) = Len(state.agent_messages) + 1
                /\ LastInstruction(state').receiver \in ResearchRoles)
                => LastInstruction(state').step_id
                      = Some(state'.current_research_index)]_vars

\* The critic of the researcher was sent the result of the second research
\* step with step_id 1.
C24_Witness ==
    /\ pc = "critic" /\ state.current_step = "critic_researcher"
    /\ state.current_research_index = 1 /\ Len(state.research_steps) = 2
    /\ LastInstruction(state).receiver = "critic_researcher"
    /\ LastInstruction(state).step_id = Some(1)

\* Outcome of steps 1 to 3 of the orchestrator on s.
StepsOutcome(s) == execute_next_step(check_retry_limit(determine_next_step(s)))

\* C25: an exception raised inside the orchestrator's steps is caught,
\* recorded in error and error_component as component orchestrator plus the
\* message, and forces next_step = finalizer with a non-empty failure answer.
C25_OrchestratorExceptionForcesFinalizer ==
    [][(/\ pc = "unit" /\ ~Truthy(state.error)
        /\ StepsOutcome(state).raised # NoneStr)
          => /\ state'.error
                  = "orchestrator failed: " \o StepsOutcome(state).raised
             /\ state'.error_component = "orchestrator"
             /\ state'.next_step = "finalizer"
             /\ state'.final_answer # ""]_vars

KnownSteps == {"", "input", "planner", "researcher", "expert",
               "critic_planner", "critic_researcher", "critic_expert"}

\* C26: an orchestrator invocation whose current_step is outside the known
\* set fails: it is not counted as a retry, it sends no instruction, and no
\* agent is invoked afterwards.
C26_UnknownStepIsFatal ==
    (pc # "supplied" /\ Called.current_step \notin KnownSteps)
        => /\ pc = "crashed"
           /\ state.retry_count = Called.retry_count
           /\ state.agent_messages = Called.agent_messages

\* The messages of HandledMessages that contain network or timeout in some
\* mix of upper and lower case.
NamesNetworkOrTimeout ==
    {"Network timeout", "NETWORK DOWN", "Connection TimeOut", "Request Timeout"}

\* C27: handle_agent_error adds exactly 1 to retry_count for a message that
\* contains neither network nor timeout, case-insensitively, and leaves it
\* unchanged for one that does; it records error and error_component in both
\* cases; and it sets next_step = finalizer with an error answer exactly when
\* retry_count >= retry_limit afterwards.
C27_HandleAgentError ==
    pc = "handled"
      => LET c == query[2].component
             m == query[2].message
         IN  /\ state.retry_count
                  = Called.retry_count + (IF m \in NamesNetworkOrTimeout THEN 0 ELSE 1)
             /\ state.error = c \o " failed: " \o m
             /\ state.error_component = c
             /\ IF state.retry_count >= state.retry_limit
                THEN /\ state.next_step = "finalizer"
                     /\ state.final_answer
                          = "The question could not be answered due to an error in "
                              \o c \o "."
                     /\ state.final_reasoning_trace
                          = "System encountered an error: " \o m
                ELSE /\ state.next_step = Called.next_step
                     /\ state.final_answer = Called.final_answer
                     /\ state.final_reasoning_trace = Called.final_reasoning_trace

\* An upper-case network error at the limit: not counted, and the finalizer
\* is forced.
C27_Witness ==
    /\ pc = "handled"
    /\ query[2].message = "NETWORK DOWN"
    /\ Called.retry_count = 2 /\ Called.retry_limit = 2
    /\ Called.next_step = "planner"
    /\ state.retry_count = 2 /\ state.next_step = "finalizer"

\* The responses that are no dict or lack a required field.
Incomplete ==
    {NotADict, Dict(<<>>), Dict([research_steps |-> <<"s1">>]),
     Dict([expert_steps |-> <<"e1">>]), Dict([decision |-> "approve"]),
     Dict([feedback |-> "new feedback"])}

SlotsOf(s) ==
    <<s.critic_planner_decision, s.critic_planner_feedback,
      s.critic_researcher_decision, s.critic_researcher_feedback,
      s.critic_expert_decision, s.critic_expert_feedback>>

C29_VerdictSlotsValid ==
    pc = "answered"
      => /\ state.critic_planner_decision \in ValidDecisions \cup {""}
         /\ state.critic_researcher_decision \in ValidDecisions \cup {""}
         /\ state.critic_expert_decision \in ValidDecisions \cup {""}

\* The instructions the orchestrator has sent to the researcher for step idx.
InstructionsFor(s, idx) ==
    SelectSeq(s.agent_messages,
              LAMBDA m : /\ m.sender = "orchestrator" /\ m.receiver = "researcher"
                         /\ m.type = "instruction" /\ m.step_id = Some(idx))

HumanTurn(m) == [role |-> "human", content |-> m.content]

IsPrefix(p, q) == Len(p) <= Len(q) /\ SubSeq(q, 1, Len(p)) = p

\* The researcher is visited at idx and its sub-graph is called.
ResearcherVisit(idx) ==
    /\ pc = "researcher" /\ pc' = "orchestrator"
    /\ state.current_research_index = idx
    /\ InstructionsFor(state, idx) # <<>>

\* C30: for each research index the researcher keeps one sub-conversation.
\* The first visit to idx creates it from the orchestrator's instruction for
\* idx; a retry at idx reuses it and appends exactly the latest feedback
\* instruction, the earlier turns remaining as a prefix; the
\* sub-conversations of the other indices are not touched.
C30_SubConversationPerIndex ==
    [][\A idx \in 0..MaxSteps :
          ResearcherVisit(idx)
            => LET latest == InstructionsFor(state, idx)
                                [Len(InstructionsFor(state, idx))]
                   before == state.researcher_states
                   after == state'.researcher_states
               IN  /\ \A j \in DOMAIN before : j # idx => /\ j \in DOMAIN after
                                                          /\ after[j] = before[j]
                   /\ DOMAIN after \subseteq DOMAIN before \cup {idx}
                   /\ (idx \notin DOMAIN before /\ idx \in DOMAIN after)
                        => /\ Len(InstructionsFor(state, idx)) = 1
                           /\ Len(after[idx].messages) = 2
                           /\ after[idx].messages[1] = HumanTurn(latest)
                           /\ after[idx].messages[2].role = "ai"
                   /\ idx \in DOMAIN before
                        => /\ idx \in DOMAIN after
                           /\ IsPrefix(Append(before[idx].messages, HumanTurn(latest)),
                                       after[idx].messages)
                           /\ Len(after[idx].messages) <= Len(before[idx].messages) + 2
                           /\ latest.content = state.critic_researcher_feedback
                           /\ Len(after[idx].messages) = Len(before[idx].messages) + 2
                                => after[idx].messages[Len(after[idx].messages)].role
                                     = "ai"]_vars

\* C31: after input_interface the message log is append-only: in every step
\* of the orchestrator or of an agent the new log has the old log as a
\* prefix.
C31_LogAppendOnly ==
    [][pc # "input_interface"
         => IsPrefix(state.agent_messages, state'.agent_messages)]_vars

\* The log holds an instruction for the planner followed by later messages.
C31_Witness ==
    /\ pc = "expert"
    /\ Len(state.agent_messages) >= 5
    /\ state.agent_messages[1].receiver = "planner"
    /\ state.agent_messages[2].sender = "planner"
    /\ LastInstruction(state).receiver = "expert"

\* C32: when the finalizer is reached through the retry-limit path, the
\* instruction sent to it is a failure-mode instruction that differs from
\* the synthesis instruction sent after a critic_expert approval.
C32_FailureModeInstruction ==
    (pc = "finalizer" /\ LastInstruction(state).receiver = "finalizer")
        => (LastInstruction(state).content = FinalizeRequest
              <=> state.retry_count < state.retry_limit)

\* The message at position p of the log is the first instruction for
\* research step k.
FirstInstructionFor(s, p, k) ==
    /\ s.agent_messages[p].sender = "orchestrator"
    /\ s.agent_messages[p].receiver = "researcher"
    /\ s.agent_messages[p].step_id = Some(k)
    /\ k + 1 \in 1..Len(s.research_steps)
    /\ s.agent_messages[p].content = ResearchRequest(s.research_steps[k + 1])

\* The message at position p is the approval of phase by the critic.
ApprovalAt(s, p, phase, step_id) ==
    /\ p \in 1..Len(s.agent_messages)
    /\ s.agent_messages[p]
          = CriticResponse(phase,
                [decision |-> "approve",
                 feedback |-> "feedback" \o ToString(p - 1)], step_id)

\* C33: research steps are processed one at a time in plan order and the
\* expert starts only after all of them.  Whenever current_step is expert or
\* critic_expert and the retry limit is not reached, research_results has one
\* entry per research step and current_research_index is the last index (-1
\* for an empty plan); and the first instruction for a research step follows
\* directly the approval of the step before it (of the plan, for step 0).
C33_ResearchInPlanOrder ==
    pc # "input_interface"
      => /\ (/\ state.current_step \in {"expert", "critic_expert"}
             /\ state.retry_count < state.retry_limit)
                => /\ Len(state.research_results) = Len(state.research_steps)
                   /\ state.current_research_index = Len(state.research_steps) - 1
         /\ \A p \in 1..Len(state.agent_messages) :
              \A k \in 0..(MaxSteps - 1) :
                 FirstInstructionFor(state, p, k)
                   => IF k = 0
                      THEN ApprovalAt(state, p - 1, "critic_planner", None)
                      ELSE /\ ApprovalAt(state, p - 1, "critic_researcher", Some(k - 1))
                           /\ \E q \in 1..(p - 1) : FirstInstructionFor(state, q, k - 1)

\* The expert holds its instruction after both research steps were done and
\* approved in order.
C33_Witness ==
    /\ pc = "expert" /\ state.current_step = "expert"
    /\ state.retry_count < state.retry_limit
    /\ Len(state.research_steps) = 2 /\ Len(state.research_results) = 2
    /\ state.current_research_index = 1
    /\ \E p \in 1..Len(state.agent_messages) : FirstInstructionFor(state, p, 1)

\* C34: current_step becomes finalizer only in an orchestrator invocation
\* at critic_expert with verdict approve, or in one that finds
\* retry_count >= retry_limit; there is no other way to the finalizer.
C34_NoPrematureFinalization ==
    [][(/\ pc # "input_interface"
        /\ state.current_step # "finalizer"
        /\ state'.current_step = "finalizer")
          => /\ pc = "orchestrator"
             /\ state.error = NoneStr
             /\ \/ /\ state.current_step = "critic_expert"
                   /\ state.critic_expert_decision = "approve"
                \/ state'.retry_count >= state'.retry_limit]_vars

\* The finalizer was dispatched after the expert's answer was approved, below
\* the retry limit.
C34_Witness ==
    /\ pc = "finalizer" /\ state.current_step = "finalizer"
    /\ state.critic_expert_decision = "approve"
    /\ state.retry_count < state.retry_limit
    /\ state.expert_answer # ""

\* The nodes that do the work of a run.
AgentNodes == {"planner", "researcher", "expert", "critic"}

\* C35: for every retry limit L, the orchestrator invocation at which
\* retry_count first reaches L dispatches the finalizer.  For L >= 1 that is
\* the invocation after the L-th rejection, so an agent is only ever invoked
\* after at most L - 1 rejections, and each of these is followed by a retry.
\* For L = 0 it is the first invocation: the run goes from input to the
\* finalizer and no planner, researcher, expert or critic is invoked.
C35_LimitForcesFinalization ==
    /\ [](pc \in AgentNodes
            => /\ state.retry_limit >= 1
               /\ hist.reject <= state.retry_limit - 1
               /\ state.retry_count = hist.reject)
    /\ [][pc = "orchestrator" /\ state'.current_step # state.current_step
            => /\ state'.retry_count >= state'.retry_limit
                  => /\ pc' = "finalizer"
                     /\ state'.final_answer = FAILURE_ANSWER
                     /\ hist.reject = state.retry_limit
                     /\ state.retry_limit = 0
                          => /\ state.current_step = "input"
                             /\ Len(state'.agent_messages) = 1
               /\ (/\ state'.retry_count < state'.retry_limit
                   /\ state'.retry_count > state.retry_count)
                     => /\ pc' \in AgentNodes \ {"critic"}
                        /\ hist.reject = state'.retry_count]_vars

\* The second rejection of a run with retry limit 2 sent the run to the
\* finalizer.
C35_Witness ==
    /\ pc = "finalizer"
    /\ state.retry_limit = 2 /\ state.retry_count = 2 /\ hist.reject = 2
    /\ state.final_answer = FAILURE_ANSWER

\* A run with retry limit 0 went from input straight to the finalizer.
C35_WitnessZero ==
    /\ pc = "finalizer"
    /\ state.retry_limit = 0 /\ hist.reject = 0
    /\ Len(state.agent_messages) = 1

\* C36: in a run whose agents do not fail the message log alternates
\* instruction, response, instruction, response, ...: every instruction has
\* sender orchestrator, every response has receiver orchestrator and the
\* sender that the instruction just before it was addressed to.
C36_LogAlternates ==
    (pc # "input_interface" /\ state.error = NoneStr) =>
    \A i \in 1..Len(state.agent_messages) :
       LET m == state.agent_messages[i]
       IN  /\ m.type = "instruction" => m.sender = "orchestrator"
           /\ IF i % 2 = 1
              THEN m.type = "instruction"
              ELSE /\ m.type = "response"
                   /\ m.receiver = "orchestrator"
                   /\ m.sender = state.agent_messages[i - 1].receiver

\* A finished run whose log holds the exchanges with the planner, a critic
\* phase and the finalizer.
C36_Witness ==
    /\ pc = "END"
    /\ state.error = NoneStr
    /\ Len(state.agent_messages) >= 6
    /\ \E i \in 1..Len(state.agent_messages) :
          state.agent_messages[i].sender = "critic_planner"
    /\ state.agent_messages[Len(state.agent_messages)].sender = "finalizer"

\* The fields the orchestrator's error branch may write.
ErrorBranchFields == {"next_step", "final_answer", "final_reasoning_trace"}

\* C37: an orchestrator invocation on a state with error set changes only
\* next_step, final_answer and final_reasoning_trace, the latter two only when
\* they were empty; current_step, retry_count, current_research_index, the
\* verdict slots and the message log are unchanged.  Once set, error is never
\* cleared for the rest of the run.
C37_ErrorBranchFrame ==
    /\ [][(pc = "orchestrator" /\ state.error # NoneStr)
            => /\ \A f \in DOMAIN state \ ErrorBranchFields : state'[f] = state[f]
               /\ state'.next_step = "finalizer"
               /\ state.final_answer # "" => state'.final_answer = state.final_answer
               /\ state.final_reasoning_trace # ""
                    => state'.final_reasoning_trace = state.final_reasoning_trace]_vars
    /\ [][(pc # "input_interface" /\ state.error # NoneStr)
            => state'.error # NoneStr]_vars

\* The orchestrator ran on a state with an error below the retry limit: it
\* filled the empty final answer and left current_step where it was.
C37_Witness ==
    /\ pc \notin {"input_interface", "orchestrator"}
    /\ state.error # NoneStr
    /\ state.next_step = "finalizer"
    /\ state.current_step # "finalizer"
    /\ state.final_answer = ErrorAnswer(state.error)
    /\ state.retry_count < state.retry_limit

\* The critic phases and the agent each of them reviews.
CriticSteps == {"critic_planner", "critic_researcher", "critic_expert"}

ReviewedBy(step) ==
    CASE step = "critic_planner" -> "planner"
      [] step = "critic_researcher" -> "researcher"
      [] step = "critic_expert" -> "expert"

Undecided(s) ==
    /\ s.current_step \in CriticSteps
    /\ VerdictOn(s, ReviewedBy(s.current_step)) \notin ValidDecisions

\* C38 (as stated): an orchestrator invocation at a critic step whose verdict
\* slot holds neither approve nor reject keeps the step it came with: it sends
\* one more instruction to the same critic phase and changes neither
\* retry_count nor current_research_index.
C38_UndecidedVerdictReinvites ==
    [][(pc = "orchestrator" /\ Undecided(state))
         => /\ pc' = "critic"
            /\ state'.current_step = state.current_step
            /\ state'.retry_count = state.retry_count
            /\ state'.current_research_index = state.current_research_index
            /\ Len(state'.agent_messages) = Len(state.agent_messages) + 1
            /\ LastInstruction(state').receiver = state.current_step]_vars

\* C38 (amended): an orchestrator invocation on a state with no recorded
\* error, at a critic step whose verdict slot holds neither approve nor reject,
\* keeps the step it came with: it sends one more instruction to the same
\* critic phase and changes neither retry_count nor current_research_index.
\* Such verdicts are not counted: as long as no error is recorded retry_count
\* is the number of rejections only, so the retry limit does not bound them.
C38_UndecidedVerdictReinvitesWithoutError ==
    /\ [][(pc = "orchestrator" /\ Undecided(state) /\ state.error = NoneStr)
            => /\ pc' = "critic"
               /\ state'.current_step = state.current_step
               /\ state'.next_step = state.current_step
               /\ state'.retry_count = state.retry_count
               /\ state'.current_research_index = state.current_research_index
               /\ Len(state'.agent_messages) = Len(state.agent_messages) + 1
               /\ SubSeq(state'.agent_messages, 1, Len(state.agent_messages))
                     = state.agent_messages
               /\ LastInstruction(state').receiver = state.current_step
               /\ LastInstruction(state').sender = "orchestrator"]_vars
    /\ [][(pc = "orchestrator" /\ Undecided(state) /\ state.error # NoneStr)
            => /\ state'.agent_messages = state.agent_messages
               /\ state'.current_step = state.current_step
               /\ state'.next_step = "finalizer"]_vars
    /\ []((pc \in AgentNodes /\ state.error = NoneStr)
            => state.retry_count = hist.reject)

\* A critic phase invited once more after more undecided verdicts than the
\* retry limit allows rejections.
C38_Witness ==
    /\ pc = "critic"
    /\ state.current_step \in CriticSteps
    /\ faults > state.retry_limit
    /\ state.retry_count = 0
    /\ Undecided(state)
    /\ state.error = NoneStr

\* The fields of the verdict slot of a critic phase.
SlotFields(step) == {step \o "_decision", step \o "_feedback"}

\* C39: a critic invocation at phase critic_X that records no error writes
\* only the decision and feedback of slot X and appends one response message
\* with sender critic_X: the other two verdict slots, the plan,
\* research_results, current_research_index, retry_count, current_step and
\* next_step are unchanged.  A critic invocation at a current_step that is no
\* critic phase writes no verdict slot and records an error with component
\* "critic".
C39_CriticFrame ==
    [][pc = "critique" =>
        LET X == state.current_step
            log == state'.agent_messages
        IN  /\ (X \in CriticSteps /\ state'.error = NoneStr)
                 => /\ \A f \in DOMAIN state \ (SlotFields(X) \cup {"agent_messages"}) :
                          state'[f] = state[f]
                    /\ state'[X \o "_decision"] = query[2].value.decision
                    /\ state'[X \o "_feedback"] = query[2].value.feedback
                    /\ log = Append(state.agent_messages, log[Len(log)])
                    /\ log[Len(log)].sender = X
                    /\ log[Len(log)].receiver = "orchestrator"
                    /\ log[Len(log)].type = "response"
            /\ (X \in CriticSteps /\ ~IsFailure(query[2]) /\ state.agent_messages # <<>>)
                 => state'.error = NoneStr
            /\ X \notin CriticSteps
                 => /\ SlotsOf(state') = SlotsOf(state)
                    /\ state'.agent_messages = state.agent_messages
                    /\ state'.error # NoneStr
                    /\ state'.error_component = "critic"]_vars

\* The critic reviewed a research result and stored a rejection in the
\* researcher's slot next to older verdicts in the other two.
C39_Witness ==
    /\ pc = "critiqued"
    /\ state.current_step = "critic_researcher"
    /\ state.error = NoneStr
    /\ state.critic_researcher_decision = "reject"
    /\ state.critic_researcher_feedback = "new feedback"
    /\ state.critic_planner_decision = "approve"
    /\ state.critic_planner_feedback = "old feedback"
    /\ Len(state.agent_messages) = 2

\* The critic was called at a current_step that is no critic phase.
C39_WitnessInvalidStep ==
    /\ pc = "critiqued"
    /\ state.current_step = "invalid_step"
    /\ state.error_component = "critic"

TypeOK == pc \in {"input_interface", "orchestrator", "planner", "researcher",
                  "expert", "critic", "finalizer", "END", "crashed", "unit", "conv",
                  "route", "input_pair", "input_done", "review", "reviewed", "invite", "invited", "supplied", "handle", "handled", "adapter", "answered", "critique", "critiqued", "step1", "step2", "step3", "step4", "raised"}

====
